---- MODULE Spec2Model ----
(***************************************************************************)
(* GetMissingEpisodes (plugins.v2/getmissingepisodes/__init__.py):         *)
(* the episode filter, the per-item reconciliation, the subscription       *)
(* filer, and the history ledger kept in the plugin's "history" blob,      *)
(* written by the scheduled scan and by the plugin's API endpoints.        *)
(***************************************************************************)
EXTENDS Integers, Sequences, FiniteSets, TLC

\* ------------------------------------------------------------------ bounds
\* episodes of a catalog season are numbered 1..n, n <= MaxEp
MaxEp == 2
\* calendar days 1..MaxDay (air dates and the current date)
MaxDay == 3
\* scans started in one behaviour
MaxScans == 1
\* API requests started in one behaviour
MaxUserOps == 2
\* configurations saved (init_plugin calls) in one behaviour
MaxInits == 1
\* directories of a series' path on the media server
MaxSegs == 3
\* lines of the save_path_replaces option
MaxRules == 2

Seasons == {1, 2}
Episodes == 1..MaxEp
Days == 1..MaxDay

\* the sequence of the members of a set of integers, ascending
RECURSIVE Ascending(_)
Ascending(S) ==
    IF S = {} THEN <<>>
    ELSE LET m == CHOOSE x \in S : \A y \in S : x <= y
         IN <<m>> \o Ascending(S \ {m})

Range(f) == {f[i] : i \in DOMAIN f}

\* ------------------------------------------------------------ enumerations
HistoryStatus == {"UNKNOW", "ALL_EXIST", "ADDED_RSS", "NO_EXIST", "FAILED"}
NoExistAction == {"ONLY_HISTORY", "ADD_SUBSCRIBE", "SET_ALL_EXIST"}

\* an episode's air_date as TMDB gives it: missing, a string strptime
\* rejects, or a date
AirDates ==
    {[kind |-> "none", day |-> 0], [kind |-> "bad", day |-> 0]}
        \cup {[kind |-> "date", day |-> d] : d \in Days}

\* ----------------------------------------------------------- episode filter
\* the branch of __filter_episodes that decides one episode
EpisodeCounts(episode, only_aired, today) ==
    IF episode.air_date.kind # "none"
    THEN IF episode.air_date.kind = "date"
         THEN IF only_aired
              THEN episode.air_date.day < today
              ELSE TRUE
         ELSE ~only_aired
    ELSE ~only_aired

\* __filter_episodes on the list tmdb_episodes returned
FilterEpisodes(episodes_info, only_aired, today) ==
    LET kept == SelectSeq(episodes_info,
                          LAMBDA e : EpisodeCounts(e, only_aired, today))
    IN [i \in 1..Len(kept) |-> kept[i].episode_number]

\* ----------------------------------------------------------- reconciliation
\* __append_season_info: the entry stored under str(season)
SeasonInfo(season, episode_no_exist, episode_total) ==
    [season |-> season,
     episode_no_exist |-> episode_no_exist,
     episode_total |-> episode_total]

\* self._subOper.exists(tmdbid, None, season=season)
SubscribeExists(subs, season) == season \in subs

\* one turn of the loop "全部季不存在": the entries it appends (none or one)
AllSeasonsNoExistListsEpisodes(season, filted_episodes, subs) ==
    IF filted_episodes = <<>>
    THEN {}
    ELSE IF SubscribeExists(subs, season)
         THEN {}
         ELSE {SeasonInfo(season, Range(filted_episodes), Len(filted_episodes))}

AllSeasonsNoExistNoSubCheck(season, filted_episodes, subs) ==
    IF filted_episodes = <<>>
    THEN {}
    ELSE {SeasonInfo(season, {}, Len(filted_episodes))}

AllSeasonsNoExist(season, filted_episodes, subs) ==
    IF filted_episodes = <<>>
    THEN {}
    ELSE IF SubscribeExists(subs, season)
         THEN {}
         ELSE {SeasonInfo(season, {}, Len(filted_episodes))}

\* the branch "if exist_episode:" of the loop "检查每季缺失的集"
LackEpisodeNoSubCheck(season, filted_episodes, exist_episode, subs) ==
    LET lack_episode == Range(filted_episodes) \ exist_episode
    IN IF lack_episode = {}
       THEN {}
       ELSE {SeasonInfo(season, lack_episode, Len(filted_episodes))}

LackEpisode(season, filted_episodes, exist_episode, subs) ==
    LET lack_episode == Range(filted_episodes) \ exist_episode
    IN IF lack_episode = {}
       THEN {}
       ELSE IF SubscribeExists(subs, season)
            THEN {}
            ELSE {SeasonInfo(season, lack_episode, Len(filted_episodes))}

\* the branch "else" of the same loop: the season has no local episode
SeasonNoExistEmitsAlways(season, filted_episodes, subs, only_season_exist) ==
    IF SubscribeExists(subs, season)
    THEN {}
    ELSE {SeasonInfo(season, {}, Len(filted_episodes))}

SeasonNoExist(season, filted_episodes, subs, only_season_exist) ==
    IF SubscribeExists(subs, season)
    THEN {}
    ELSE IF ~only_season_exist
         THEN {SeasonInfo(season, {}, Len(filted_episodes))}
         ELSE {}

\* one turn of the loop "检查每季缺失的集"
CheckSeason(season, filted_episodes, exist_season_info, subs, only_season_exist) ==
    IF filted_episodes = <<>>
    THEN {}
    ELSE LET exist_episode ==
                 IF season \in DOMAIN exist_season_info
                 THEN exist_season_info[season]
                 ELSE {}
         IN IF exist_episode # {}
            THEN LackEpisode(season, filted_episodes, exist_episode, subs)
            ELSE SeasonNoExist(season, filted_episodes, subs, only_season_exist)

\* what one catalog season adds to season_episode_no_exist_info
SeasonEntries(season, item, tmdbinfo, subs, only_season_exist, only_aired, today) ==
    LET filted_episodes ==
            FilterEpisodes(tmdbinfo.episodes[season], only_aired, today)
    IN IF item.seasoninfo = <<>> /\ ~only_season_exist
       THEN AllSeasonsNoExist(season, filted_episodes, subs)
       ELSE CheckSeason(season, filted_episodes, item.seasoninfo, subs,
                        only_season_exist)

\* season_episode_no_exist_info after both loops, keyed by season
SeasonEpisodeNoExistInfo(item, tmdbinfo, subs, only_season_exist, only_aired, today) ==
    LET entries(s) == SeasonEntries(s, item, tmdbinfo, subs, only_season_exist,
                                    only_aired, today)
    IN [s \in {x \in tmdbinfo.seasons : entries(x) # {}} |->
            CHOOSE e \in entries(s) : TRUE]

\* __get_item_no_exist_info: (is_add_subscribe_success, tv_no_exist_info)
GetItemNoExistInfo(item, tmdbinfo, subs, only_season_exist, only_aired, today) ==
    IF ~item.tmdbid
    THEN [ok |-> FALSE, info |-> <<>>]
    ELSE IF ~tmdbinfo.found
         THEN [ok |-> FALSE, info |-> <<>>]
         ELSE IF tmdbinfo.seasons = {}
              THEN [ok |-> FALSE, info |-> <<>>]
              ELSE [ok |-> TRUE,
                    info |-> SeasonEpisodeNoExistInfo(item, tmdbinfo, subs,
                                 only_season_exist, only_aired, today)]

\* ------------------------------------------------------- subscription filer
\* __checke_and_add_subscribe: the existence check, then the filing request
\* self._subChain.add(...), which the service answers with add_ok[season]
CheckAndAddSubscribeAnswersTrue(season, total_episode, subs, add_ok) ==
    IF SubscribeExists(subs, season)
    THEN [ok |-> TRUE, subs |-> subs, requests |-> <<>>]
    ELSE [ok |-> TRUE,
          subs |-> IF add_ok[season] THEN subs \cup {season} ELSE subs,
          requests |-> <<[season |-> season,
                          total_episode |-> total_episode]>>]

CheckAndAddSubscribe(season, total_episode, subs, add_ok) ==
    IF SubscribeExists(subs, season)
    THEN [ok |-> TRUE, subs |-> subs, requests |-> <<>>]
    ELSE LET request == [season |-> season, total_episode |-> total_episode]
         IN IF add_ok[season]
            THEN [ok |-> TRUE, subs |-> subs \cup {season},
                  requests |-> <<request>>]
            ELSE [ok |-> FALSE, subs |-> subs, requests |-> <<request>>]

\* the loop "for season in season_keys" of __add_subscribe_by_tv_no_exist_info
RECURSIVE AddSubscribeSeasonsKeepsGoing(_, _, _, _, _, _)
AddSubscribeSeasonsKeepsGoing(season_keys, info, subs, add_ok, only_season_exist, requests) ==
    IF season_keys = <<>>
    THEN [ok |-> TRUE, subs |-> subs, requests |-> requests]
    ELSE LET season == Head(season_keys)
             season_info == info[season]
         IN IF season_info.episode_no_exist = {} /\ only_season_exist
            THEN AddSubscribeSeasonsKeepsGoing(Tail(season_keys), info, subs,
                     add_ok, only_season_exist, requests)
            ELSE LET r == CheckAndAddSubscribe(season,
                              season_info.episode_total, subs, add_ok)
                 IN AddSubscribeSeasonsKeepsGoing(Tail(season_keys), info,
                        r.subs, add_ok, only_season_exist,
                        requests \o r.requests)

RECURSIVE AddSubscribeSeasonsSkipFails(_, _, _, _, _, _)
AddSubscribeSeasonsSkipFails(season_keys, info, subs, add_ok, only_season_exist, requests) ==
    IF season_keys = <<>>
    THEN [ok |-> TRUE, subs |-> subs, requests |-> requests]
    ELSE LET season == Head(season_keys)
             season_info == info[season]
         IN IF season_info.episode_no_exist = {} /\ only_season_exist
            THEN [ok |-> FALSE, subs |-> subs, requests |-> requests]
            ELSE LET r == CheckAndAddSubscribe(season,
                              season_info.episode_total, subs, add_ok)
                 IN IF ~r.ok
                    THEN [ok |-> FALSE, subs |-> r.subs,
                          requests |-> requests \o r.requests]
                    ELSE AddSubscribeSeasonsSkipFails(Tail(season_keys), info,
                             r.subs, add_ok, only_season_exist,
                             requests \o r.requests)

RECURSIVE AddSubscribeSeasons(_, _, _, _, _, _)
AddSubscribeSeasons(season_keys, info, subs, add_ok, only_season_exist, requests) ==
    IF season_keys = <<>>
    THEN [ok |-> TRUE, subs |-> subs, requests |-> requests]
    ELSE LET season == Head(season_keys)
             season_info == info[season]
         IN IF season_info.episode_no_exist = {} /\ only_season_exist
            THEN AddSubscribeSeasons(Tail(season_keys), info, subs, add_ok,
                                     only_season_exist, requests)
            ELSE LET r == CheckAndAddSubscribe(season,
                              season_info.episode_total, subs, add_ok)
                 IN IF ~r.ok
                    THEN [ok |-> FALSE, subs |-> r.subs,
                          requests |-> requests \o r.requests]
                    ELSE AddSubscribeSeasons(Tail(season_keys), info, r.subs,
                             add_ok, only_season_exist,
                             requests \o r.requests)

\* create_tv_no_exist_info and the fields __get_item_no_exist_info fills in:
\* whether title, year and tmdbid are there, and the missing-season map
TvNoExistInfo(item, info) ==
    [title |-> item.title, year |-> item.year, tmdbid |-> item.tmdbid,
     season_episode_no_exist_info |-> info]

\* __add_subscribe_by_tv_no_exist_info; the keys of the dict come in the order
\* the entries were appended, the catalog's order of seasons (ascending)
AddSubscribeByTvNoExistInfo(tv_no_exist_info, subs, add_ok, only_season_exist) ==
    LET info == tv_no_exist_info.season_episode_no_exist_info
    IN IF \/ ~tv_no_exist_info.title
          \/ ~tv_no_exist_info.year
          \/ ~tv_no_exist_info.tmdbid
          \/ info = <<>>
       THEN [ok |-> FALSE, subs |-> subs, requests |-> <<>>]
       ELSE AddSubscribeSeasons(Ascending(DOMAIN info), info, subs, add_ok,
                                only_season_exist, <<>>)

\* ------------------------------------------------------ one item of a scan
\* the filer was not called
NotFiled(subs) == [ok |-> FALSE, subs |-> subs, requests |-> <<>>]

\* the status chosen after __get_item_no_exist_info returned
\* (__get_mediaserver_tv_info, "if is_add_subscribe_success and
\* tv_no_exist_info:" and its else), with the filer's run when it is called
ScanItemOutcomeMissingWhenComplete(item, cls, no_exist_action, subs, add_ok, only_season_exist) ==
    [exist_status |-> IF cls.ok THEN "NO_EXIST" ELSE "FAILED",
     filed |-> FALSE, filer |-> NotFiled(subs)]

ScanItemOutcomeKeepsAddedRss(item, cls, no_exist_action, subs, add_ok, only_season_exist) ==
    IF cls.ok
    THEN IF cls.info = <<>>
         THEN [exist_status |-> "ALL_EXIST", filed |-> FALSE,
               filer |-> NotFiled(subs)]
         ELSE IF no_exist_action = "ADD_SUBSCRIBE"
              THEN LET f == AddSubscribeByTvNoExistInfo(
                                TvNoExistInfo(item, cls.info), subs, add_ok,
                                only_season_exist)
                   IN [exist_status |-> "ADDED_RSS", filed |-> TRUE,
                       filer |-> f]
              ELSE IF no_exist_action = "SET_ALL_EXIST"
                   THEN [exist_status |-> "ALL_EXIST", filed |-> FALSE,
                         filer |-> NotFiled(subs)]
                   ELSE [exist_status |-> "NO_EXIST", filed |-> FALSE,
                         filer |-> NotFiled(subs)]
    ELSE [exist_status |-> "FAILED", filed |-> FALSE, filer |-> NotFiled(subs)]

ScanItemOutcomeDropsFailure(item, cls, no_exist_action, subs, add_ok, only_season_exist) ==
    [exist_status |-> IF cls.ok THEN "ALL_EXIST" ELSE "UNKNOW",
     filed |-> FALSE, filer |-> NotFiled(subs)]

ScanItemOutcomeFilesAlways(item, cls, no_exist_action, subs, add_ok, only_season_exist) ==
    IF cls.ok
    THEN IF cls.info = <<>>
         THEN [exist_status |-> "ALL_EXIST", filed |-> FALSE,
               filer |-> NotFiled(subs)]
         ELSE LET f == AddSubscribeByTvNoExistInfo(
                           TvNoExistInfo(item, cls.info), subs, add_ok,
                           only_season_exist)
              IN [exist_status |->
                      IF no_exist_action = "ADD_SUBSCRIBE"
                      THEN IF f.ok THEN "ADDED_RSS" ELSE "NO_EXIST"
                      ELSE IF no_exist_action = "SET_ALL_EXIST"
                           THEN "ALL_EXIST"
                           ELSE "NO_EXIST",
                  filed |-> TRUE, filer |-> f]
    ELSE [exist_status |-> "FAILED", filed |-> FALSE, filer |-> NotFiled(subs)]

ScanItemOutcome(item, cls, no_exist_action, subs, add_ok, only_season_exist) ==
    IF cls.ok
    THEN IF cls.info = <<>>
         THEN [exist_status |-> "ALL_EXIST", filed |-> FALSE,
               filer |-> NotFiled(subs)]
         ELSE IF no_exist_action = "ADD_SUBSCRIBE"
              THEN LET f == AddSubscribeByTvNoExistInfo(
                                TvNoExistInfo(item, cls.info), subs, add_ok,
                                only_season_exist)
                   IN [exist_status |-> IF f.ok THEN "ADDED_RSS"
                                        ELSE "NO_EXIST",
                       filed |-> TRUE, filer |-> f]
              ELSE IF no_exist_action = "SET_ALL_EXIST"
                   THEN [exist_status |-> "ALL_EXIST", filed |-> FALSE,
                         filer |-> NotFiled(subs)]
                   ELSE [exist_status |-> "NO_EXIST", filed |-> FALSE,
                         filer |-> NotFiled(subs)]
    ELSE [exist_status |-> "FAILED", filed |-> FALSE, filer |-> NotFiled(subs)]

\* ------------------------------------------------------------------- state
VARIABLES
    given,      \* the external data and options one call is made with
    got,        \* what the call returned
    step,       \* how far that call has come
    store,      \* the persisted "history" blob (get_data / save_data)
    history,    \* the running scan's in-memory history
    scan,       \* the scan: where it stands in the item list, its number
    clearflag,  \* self._clearflag
    config,     \* the options init_plugin read from the configuration
    users,      \* the API requests being served
    nops,       \* API requests started so far
    ninits,     \* init_plugin calls so far
    acted,      \* keys a user action saved a change of during the running
                \* scan, the scan not having upserted them since
    history_type  \* self._current_history_type, saved as
                  \* "current_history_type"

callVars == <<given, got, step>>
ledgerVars ==
    <<store, history, scan, clearflag, config, users, nops, ninits,
      acted, history_type>>
vars ==
    <<given, got, step, store, history, scan, clearflag, config, users, nops,
      ninits, acted, history_type>>

\* ------------------------------------------------- inputs of the pure calls
\* tmdb_episodes' answer for a season: episodes 1..n, each with an air date
EpisodeLists(dates) ==
    UNION {{[i \in 1..n |-> [episode_number |-> i, air_date |-> a[i]]] :
                a \in [1..n -> dates]} : n \in 0..MaxEp}

\* the media server's season -> episodes map of an item
SeasonInfos == UNION {[D -> SUBSET Episodes] : D \in SUBSET Seasons}

\* a library item of type TV; the episodes are asked for only with a tmdbid
Items ==
    {[tmdbid |-> TRUE, title |-> TRUE, year |-> y, seasoninfo |-> si] :
        y \in BOOLEAN, si \in SeasonInfos}
        \cup {[tmdbid |-> FALSE, title |-> TRUE, year |-> y,
               seasoninfo |-> <<>>] : y \in BOOLEAN}

\* air dates of the catalogs an item is reconciled against: none, or day 1
ItemAirDates == {[kind |-> "none", day |-> 0], [kind |-> "date", day |-> 1]}

\* recognize_media's answer: nothing, or the seasons with their episodes
TmdbInfos ==
    {[found |-> FALSE, seasons |-> {}, episodes |-> [s \in Seasons |-> <<>>]]}
        \cup UNION {{[found |-> TRUE, seasons |-> D,
                      episodes |-> [s \in Seasons |->
                                       IF s \in D THEN e[s] ELSE <<>>]] :
                        e \in [D -> EpisodeLists(ItemAirDates)]} :
                    D \in SUBSET Seasons}

\* ------------------------------------------------------------- the ledger
\* the unique flags of the items of the whitelisted library, in the order the
\* media server lists them
ItemOrder == <<"k1", "k2">>
Keys == Range(ItemOrder)

\* the API requests served at the same time
UserProcs == {"u1", "u2"}

\* the endpoints of get_api that rewrite the ledger
UserOps ==
    {"delete_history", "set_all_exist_history", "add_subscribe_history",
     "toggle_skip_history"}

\* the class attributes before init_plugin has read a configuration
DefaultConfig ==
    [no_exist_action |-> "ONLY_HISTORY", only_season_exist |-> TRUE,
     only_aired |-> TRUE]

Configs ==
    [no_exist_action : NoExistAction, only_season_exist : BOOLEAN,
     only_aired : BOOLEAN]

\* get_data("history") answers nothing, or "" after a clear
NoBlob == [ok |-> FALSE, details |-> <<>>]

NoUser == [pc |-> "idle", op |-> "none", key |-> "none", local |-> <<>>]

\* the plugin after construction, nothing persisted yet
LedgerIdle ==
    /\ store = NoBlob
    /\ history = <<>>
    /\ scan = [pc |-> "idle", idx |-> 0, no |-> 0]
    /\ clearflag = FALSE
    /\ config = DefaultConfig
    /\ users = [u \in UserProcs |-> NoUser]
    /\ nops = 0
    /\ ninits = 0
    /\ acted = {}
    /\ history_type = "LATEST"

\* --------------------------------------------- specification: the filter
FilterInit ==
    /\ given \in [episodes_info : EpisodeLists(AirDates),
                  only_aired : BOOLEAN, today : Days]
    /\ got = <<>>
    /\ step = "episodes"
    /\ LedgerIdle

Filter ==
    /\ step = "episodes"
    /\ got' = FilterEpisodes(given.episodes_info, given.only_aired, given.today)
    /\ step' = "filtered"
    /\ UNCHANGED <<given, ledgerVars>>

SpecFilter == FilterInit /\ [][Filter]_vars

\* --------------------------------------- specification: one item of a scan
ItemInit ==
    /\ given \in [item : Items, tmdbinfo : TmdbInfos, subs : SUBSET Seasons,
                  only_season_exist : BOOLEAN, only_aired : BOOLEAN,
                  today : {MaxDay}]
    /\ got = <<>>
    /\ step = "item"
    /\ LedgerIdle

Classify ==
    /\ step = "item"
    /\ got' = [cls |-> GetItemNoExistInfo(given.item, given.tmdbinfo,
                           given.subs, given.only_season_exist,
                           given.only_aired, given.today)]
    /\ step' = "classified"
    /\ UNCHANGED <<given, ledgerVars>>

Resolve ==
    /\ step = "classified"
    /\ \E action \in NoExistAction \cup {"other"},
          add_ok \in [DOMAIN got.cls.info -> BOOLEAN] :
          LET res == ScanItemOutcome(given.item, got.cls, action, given.subs,
                                     add_ok, given.only_season_exist)
          IN got' = [cls |-> got.cls, no_exist_action |-> action,
                     res |-> res,
                     answers |-> [s \in {r.season : r \in Range(res.filer.requests)}
                                     |-> add_ok[s]]]
    /\ step' = "resolved"
    /\ UNCHANGED <<given, ledgerVars>>

SpecItem == ItemInit /\ [][Classify \/ Resolve]_vars

\* ------------------------------ specification: the filer on three seasons
FilerSeasons == {1, 2, 3}

\* every season is in the catalog with aired episodes; locally a season is
\* absent or holds episode 1
FilerInit ==
    /\ given \in [item : {[tmdbid |-> TRUE, title |-> TRUE, year |-> y,
                           seasoninfo |-> [s \in D |-> {1}]] :
                            y \in BOOLEAN, D \in SUBSET FilerSeasons},
                  tmdbinfo : {[found |-> TRUE, seasons |-> FilerSeasons,
                               episodes |-> [s \in FilerSeasons |->
                                   [i \in 1..n[s] |->
                                       [episode_number |-> i,
                                        air_date |-> [kind |-> "date",
                                                      day |-> 1]]]]] :
                                n \in [FilerSeasons -> 1..MaxEp]},
                  subs : SUBSET FilerSeasons,
                  only_season_exist : BOOLEAN, only_aired : BOOLEAN,
                  today : {MaxDay}]
    /\ got = <<>>
    /\ step = "item"
    /\ LedgerIdle

SpecFiler == FilerInit /\ [][Classify \/ Resolve]_vars

\* ------------------------------------------- specification: the ledger
\* what the collaborators answer for one item of a scan
ScanGiven ==
    [item : {[tmdbid |-> FALSE, title |-> TRUE, year |-> TRUE,
              seasoninfo |-> <<>>],
             [tmdbid |-> TRUE, title |-> TRUE, year |-> TRUE,
              seasoninfo |-> [s \in {1} |-> {1}]]},
     tmdbinfo : {[found |-> TRUE, seasons |-> {1},
                  episodes |-> [s \in {1} |->
                      [i \in 1..MaxEp |->
                          [episode_number |-> i,
                           air_date |-> [kind |-> "date", day |-> 1]]]]]},
     subs : SUBSET {1},
     today : {MaxDay}]

\* the options a scan of such items can tell apart
LedgerConfigs ==
    {c \in Configs : c.only_season_exist /\ c.only_aired}

\* the record __append_history stores under item_unique_flag
HistoryDetail(exist_status, tv_no_exist_info, current_time, existing_skip) ==
    [exist_status |-> exist_status,
     tv_no_exist_info |-> tv_no_exist_info,
     last_update |-> current_time,
     skip |-> existing_skip]

\* history["details"] with the record of key set to detail
WithDetail(details, key, detail) ==
    [k \in DOMAIN details \cup {key} |->
        IF k = key THEN detail ELSE details[k]]

\* history["details"] after del historys["details"][unique]
WithoutDetail(details, key) ==
    [k \in DOMAIN details \ {key} |-> details[k]]

\* __append_history on the scan's history: the record keeps the skip flag the
\* scan's history holds for the key
AppendHistoryExistingOnly(details, item_unique_flag, exist_status, tv_no_exist_info, current_time) ==
    IF item_unique_flag \in DOMAIN details
    THEN WithDetail(details, item_unique_flag,
                    HistoryDetail(exist_status, tv_no_exist_info, current_time,
                                  details[item_unique_flag].skip))
    ELSE details

AppendHistoryKeepsAllExist(details, item_unique_flag, exist_status, tv_no_exist_info, current_time) ==
    LET existing == item_unique_flag \in DOMAIN details
        marked == IF existing
                  THEN details[item_unique_flag].exist_status = "ALL_EXIST"
                  ELSE FALSE
    IN WithDetail(details, item_unique_flag,
                  HistoryDetail(IF marked THEN "ALL_EXIST" ELSE exist_status,
                                tv_no_exist_info, current_time,
                                IF existing THEN details[item_unique_flag].skip
                                ELSE FALSE))

AppendHistoryKeepsStatus(details, item_unique_flag, exist_status, tv_no_exist_info, current_time) ==
    LET existing == item_unique_flag \in DOMAIN details
    IN WithDetail(details, item_unique_flag,
                  HistoryDetail(IF existing
                                THEN details[item_unique_flag].exist_status
                                ELSE exist_status,
                                tv_no_exist_info, current_time,
                                IF existing THEN details[item_unique_flag].skip
                                ELSE FALSE))

AppendHistory(details, item_unique_flag, exist_status, tv_no_exist_info, current_time) ==
    LET existing_skip ==
            IF item_unique_flag \in DOMAIN details
            THEN details[item_unique_flag].skip
            ELSE FALSE
    IN WithDetail(details, item_unique_flag,
                  HistoryDetail(exist_status, tv_no_exist_info, current_time,
                                existing_skip))

\* what an earlier run of the plugin left persisted: nothing, or the records
\* a scan under the default options wrote for items with a gap
EarlierGiven ==
    CHOOSE g \in ScanGiven : g.item.tmdbid /\ g.subs = {}

EarlierDetail ==
    LET g == EarlierGiven
        cls == GetItemNoExistInfo(g.item, g.tmdbinfo, g.subs,
                   DefaultConfig.only_season_exist, DefaultConfig.only_aired,
                   g.today)
        res == ScanItemOutcome(g.item, cls, DefaultConfig.no_exist_action,
                   g.subs, [s \in {1} |-> FALSE],
                   DefaultConfig.only_season_exist)
    IN HistoryDetail(res.exist_status, TvNoExistInfo(g.item, cls.info), 0, FALSE)

PersistedBefore ==
    {NoBlob, [ok |-> TRUE, details |-> [k \in Keys |-> EarlierDetail]]}

Init ==
    /\ given = <<>>
    /\ got = <<>>
    /\ step = "ledger"
    /\ store \in PersistedBefore
    /\ history = <<>>
    /\ scan = [pc |-> "idle", idx |-> 0, no |-> 0]
    /\ clearflag = FALSE
    /\ config = DefaultConfig
    /\ users = [u \in UserProcs |-> NoUser]
    /\ nops = 0
    /\ ninits = 0
    /\ acted = {}
    /\ history_type = "LATEST"

\* init_plugin: the options are read; the clear flag is taken over when the
\* plugin is enabled or run once, and run once or asked to clear
InitPlugin ==
    /\ ninits < MaxInits
    /\ ninits' = ninits + 1
    /\ \E c \in LedgerConfigs : config' = c
    /\ \E enabled \in BOOLEAN, onlyonce \in BOOLEAN, clear \in BOOLEAN :
          clearflag' = IF (enabled \/ onlyonce) /\ (onlyonce \/ clear)
                       THEN clear
                       ELSE clearflag
    /\ UNCHANGED <<callVars, store, history, scan, users, nops, acted,
                   history_type>>

\* __get_mediaserver_tv_info up to the item loop: the ledger is cleared, or
\* read once for the whole scan
ScanStart ==
    /\ scan.pc = "idle"
    /\ scan.no < MaxScans
    /\ IF clearflag
       THEN /\ store' = NoBlob
            /\ clearflag' = FALSE
            /\ history' = <<>>
       ELSE /\ history' = IF store.ok THEN store.details ELSE <<>>
            /\ UNCHANGED <<store, clearflag>>
    /\ scan' = [pc |-> "run", idx |-> 1, no |-> scan.no + 1]
    /\ acted' = {}
    /\ UNCHANGED <<callVars, config, users, nops, ninits,
                   history_type>>

\* the scan moves on to the next item, or ends after the last
ScanAdvancedEndsScan == [scan EXCEPT !.pc = "idle", !.idx = 0]

ScanAdvanced ==
    IF scan.idx < Len(ItemOrder)
    THEN [scan EXCEPT !.idx = scan.idx + 1]
    ELSE [scan EXCEPT !.pc = "idle", !.idx = 0]

\* the media server does not list the item in this run, or lists it without
\* an id or as a movie: continue
ScanPass ==
    /\ scan.pc = "run"
    /\ scan' = ScanAdvanced
    /\ acted' = IF scan'.pc = "idle" THEN {} ELSE acted
    /\ UNCHANGED <<callVars, store, history, clearflag, config, users, nops,
                   ninits,
                   history_type>>

\* the scan's history flags the item as skipped: continue
ScanSkip ==
    /\ scan.pc = "run"
    /\ ItemOrder[scan.idx] \in DOMAIN history
    /\ history[ItemOrder[scan.idx]].skip
    /\ scan' = ScanAdvanced
    /\ acted' = IF scan'.pc = "idle" THEN {} ELSE acted
    /\ UNCHANGED <<callVars, store, history, clearflag, config, users, nops,
                   ninits,
                   history_type>>

\* one turn of the item loop for a TV item: classification, the filer when
\* ADD_SUBSCRIBE asks for it, __append_history and its save_data
ScanItem ==
    /\ scan.pc = "run"
    /\ LET key == ItemOrder[scan.idx]
       IN /\ ~(key \in DOMAIN history /\ history[key].skip)
          /\ \E g \in ScanGiven, add_ok \in [{1} -> BOOLEAN] :
                LET cls == GetItemNoExistInfo(g.item, g.tmdbinfo, g.subs,
                               config.only_season_exist, config.only_aired,
                               g.today)
                    res == ScanItemOutcome(g.item, cls, config.no_exist_action,
                               g.subs, add_ok, config.only_season_exist)
                IN history' = AppendHistory(history, key, res.exist_status,
                                  TvNoExistInfo(g.item, cls.info), scan.no)
          /\ store' = [ok |-> TRUE, details |-> history']
    /\ scan' = ScanAdvanced
    /\ acted' = IF scan'.pc = "idle" THEN {}
                ELSE acted \ {ItemOrder[scan.idx]}
    /\ UNCHANGED <<callVars, clearflag, config, users, nops, ninits,
                   history_type>>

\* a collaborator call of the turn raises (the episode listing, the metadata
\* lookup, tmdb_episodes answering None, the subscription check, the filing):
\* nothing in __get_mediaserver_tv_info catches it, the scan ends there
ScanRaise ==
    /\ scan.pc = "run"
    /\ ~(/\ ItemOrder[scan.idx] \in DOMAIN history
         /\ history[ItemOrder[scan.idx]].skip)
    /\ scan' = [scan EXCEPT !.pc = "idle", !.idx = 0]
    /\ acted' = {}
    /\ UNCHANGED <<callVars, store, history, clearflag, config, users, nops,
                   ninits,
                   history_type>>

\* an endpoint up to its get_data("history"): the token is right; the request
\* ends here when nothing is persisted
UserRead(u) ==
    /\ users[u].pc = "idle"
    /\ u = CHOOSE v \in UserProcs : users[v].pc = "idle"
    /\ nops < MaxUserOps
    /\ nops' = nops + 1
    /\ \E op \in UserOps, key \in Keys :
          users' = [users EXCEPT ![u] =
                       IF store.ok
                       THEN [pc |-> "read", op |-> op, key |-> key,
                             local |-> store.details]
                       ELSE NoUser]
    /\ UNCHANGED <<callVars, store, history, scan, clearflag, config, ninits,
                   acted,
                   history_type>>

UpdateExistStatusUnknown(details, unique, new_status) ==
    [details EXCEPT ![unique].exist_status = "UNKNOW"]

UpdateExistStatusResetsSkip(details, unique, new_status) ==
    [details EXCEPT ![unique].exist_status = new_status,
                    ![unique].skip = FALSE]

\* __update_exist_status_by_unique on a key of historys
UpdateExistStatus(details, unique, new_status) ==
    [details EXCEPT ![unique].exist_status = new_status]

\* the blob an endpoint saves: its own read with the one record changed.
\* add_subscribe_history runs the filer on the stored tv_no_exist_info first.
UserSaves(request, subs, add_ok, only_season_exist) ==
    LET historys == request.local
        key == request.key
    IN IF request.op = "delete_history"
       THEN WithoutDetail(historys, key)
       ELSE IF request.op = "set_all_exist_history"
            THEN UpdateExistStatus(historys, key, "ALL_EXIST")
            ELSE IF request.op = "toggle_skip_history"
                 THEN [historys EXCEPT ![key].skip = ~historys[key].skip]
                 ELSE IF AddSubscribeByTvNoExistInfo(
                             historys[key].tv_no_exist_info, subs, add_ok,
                             only_season_exist).ok
                      THEN UpdateExistStatus(historys, key, "ADDED_RSS")
                      ELSE historys

\* the rest of an endpoint: the key is looked up in what was read, the record
\* is changed and the whole of it is saved; a missing key or a failed filing
\* saves nothing
UserWrite(u) ==
    /\ users[u].pc = "read"
    /\ IF users[u].key \in DOMAIN users[u].local
       THEN \E subs \in SUBSET {1}, add_ok \in [{1} -> BOOLEAN] :
               LET saved == UserSaves(users[u], subs, add_ok,
                                      config.only_season_exist)
               IN IF users[u].op = "add_subscribe_history"
                     /\ saved = users[u].local
                  THEN UNCHANGED <<store, acted>>
                  ELSE /\ store' = [ok |-> TRUE, details |-> saved]
                       /\ acted' = IF scan.pc = "run"
                                   THEN acted \cup {users[u].key}
                                   ELSE acted
       ELSE UNCHANGED <<store, acted>>
    /\ users' = [users EXCEPT ![u] = NoUser]
    /\ UNCHANGED <<callVars, history, scan, clearflag, config, nops, ninits,
                   history_type>>

Next ==
    \/ InitPlugin
    \/ ScanStart
    \/ ScanPass
    \/ ScanSkip
    \/ ScanItem
    \/ ScanRaise
    \/ \E u \in UserProcs : UserRead(u)
    \/ \E u \in UserProcs : UserWrite(u)

Spec == Init /\ [][Next]_vars

\* ------------------------------- specification: the user actions by themselves
\* the API requests with no scan running and no configuration saved
NextUsers ==
    \/ \E u \in UserProcs : UserRead(u)
    \/ \E u \in UserProcs : UserWrite(u)

SpecUsers == Init /\ [][NextUsers]_vars

\* ------------------------- specification: one item reconciled a second time
\* what a later call finds of the data a call of __get_item_no_exist_info was
\* given: the call reads item_dict and asks the collaborators, it writes to
\* none of them
AfterReconciliationFiled(g, info) ==
    [g EXCEPT !.subs = g.subs \cup DOMAIN info]

AfterReconciliation(g, info) == g

\* __get_item_no_exist_info once more for the same item
ClassifyAgain ==
    /\ step = "classified"
    /\ LET g == AfterReconciliation(given, got.cls.info)
       IN got' = [cls |-> got.cls,
                  again |-> GetItemNoExistInfo(g.item, g.tmdbinfo, g.subs,
                                g.only_season_exist, g.only_aired, g.today)]
    /\ step' = "reclassified"
    /\ UNCHANGED <<given, ledgerVars>>

SpecTwice == ItemInit /\ [][Classify \/ ClassifyAgain]_vars

\* ------------------------------ specification: two filers at the same time
\* the scan's filer (ADD_SUBSCRIBE) and the filer of add_subscribe_history,
\* each working through the season keys of a tv_no_exist_info of one tmdbid
Filers == {"scan", "request"}

\* season_keys in the order the reconciliation stored them
SeasonKeys == {<<1>>, <<2>>, <<1, 2>>}

FilingInit ==
    /\ given \in [Filers -> SeasonKeys]
    /\ got \in [subs : SUBSET Seasons, requests : {<<>>}]
    /\ step = [f \in Filers |-> [pc |-> "check", at |-> 1, ok |-> TRUE]]
    /\ LedgerIdle

\* the filer goes on with its next season, or returns True after the last
FilerAdvanced(f) ==
    IF step[f].at < Len(given[f])
    THEN [step[f] EXCEPT !.pc = "check", !.at = step[f].at + 1]
    ELSE [step[f] EXCEPT !.pc = "done"]

\* __checke_and_add_subscribe up to self._subOper.exists: an existing
\* subscription ends the call with True
FilingCheck(f) ==
    /\ step[f].pc = "check"
    /\ step' = [step EXCEPT ![f] =
                   IF SubscribeExists(got.subs, given[f][step[f].at])
                   THEN FilerAdvanced(f)
                   ELSE [step[f] EXCEPT !.pc = "add"]]
    /\ UNCHANGED <<given, got, ledgerVars>>

\* the rest of __checke_and_add_subscribe: self._subChain.add is called; a
\* refusal ends the filer with False
FilingAdd(f) ==
    /\ step[f].pc = "add"
    /\ LET season == given[f][step[f].at]
       IN \E is_add_success \in BOOLEAN :
             /\ got' = [subs |-> IF is_add_success
                                 THEN got.subs \cup {season}
                                 ELSE got.subs,
                        requests |-> Append(got.requests,
                                        [by |-> f, season |-> season,
                                         existed |-> season \in got.subs])]
             /\ step' = [step EXCEPT ![f] =
                            IF is_add_success
                            THEN FilerAdvanced(f)
                            ELSE [step[f] EXCEPT !.pc = "done",
                                                 !.ok = FALSE]]
    /\ UNCHANGED <<given, ledgerVars>>

SpecFiling ==
    FilingInit
        /\ [][\E f \in Filers : FilingCheck(f) \/ FilingAdd(f)]_vars

\* --------------------------- specification: one turn of the scan's item loop
\* the item the turn is about: the first of the library
UpsertKey == ItemOrder[1]

\* item_type as the scan derives it from item.item_type
ItemTypes == {"TV", "MOVIE"}

\* items and catalogs with at most season 1
UpsertItems == {i \in Items : DOMAIN i.seasoninfo \subseteq {1}}
UpsertTmdbInfos == {t \in TmdbInfos : t.seasons \subseteq {1}}

\* the records an earlier scan or request can have left for the item
PriorRecords ==
    {HistoryDetail(s, EarlierDetail.tv_no_exist_info, 0, b) :
        s \in HistoryStatus \ {"UNKNOW"}, b \in BOOLEAN}

\* the scan's history when it reaches the item: no record of it, or one
PriorHistories ==
    {<<>>} \cup {[k \in {UpsertKey} |-> r] : r \in PriorRecords}

\* a scan has read the ledger and stands at its first item
UpsertInit ==
    /\ given \in [item : UpsertItems, item_type : ItemTypes,
                  tmdbinfo : UpsertTmdbInfos, subs : SUBSET {1},
                  today : {MaxDay}]
    /\ got = <<>>
    /\ step = "item"
    /\ history \in PriorHistories
    /\ store = IF history = <<>> THEN NoBlob
               ELSE [ok |-> TRUE, details |-> history]
    /\ scan = [pc |-> "run", idx |-> 1, no |-> 1]
    /\ clearflag = FALSE
    /\ config \in Configs
    /\ users = [u \in UserProcs |-> NoUser]
    /\ nops = 0
    /\ ninits = 0
    /\ acted = {}
    /\ history_type = "LATEST"

\* the scan's history flags the item as skipped
TurnSkips ==
    /\ ItemOrder[scan.idx] \in DOMAIN history
    /\ history[ItemOrder[scan.idx]].skip

\* the turn ends at "已被标记为跳过": continue
ScanTurnSkipped ==
    /\ step = "item"
    /\ scan.pc = "run"
    /\ TurnSkips
    /\ step' = "skipped"
    /\ scan' = ScanAdvanced
    /\ UNCHANGED <<given, got, store, history, clearflag, config, users, nops,
                   ninits, acted,
                   history_type>>

\* the item is a movie: continue, before any classification
ScanTurnPassed ==
    /\ step = "item"
    /\ scan.pc = "run"
    /\ ~TurnSkips
    /\ given.item_type = "MOVIE"
    /\ step' = "passed"
    /\ scan' = ScanAdvanced
    /\ UNCHANGED <<given, got, store, history, clearflag, config, users, nops,
                   ninits, acted,
                   history_type>>

\* the turn for a TV item: __get_item_no_exist_info, the status, the filer
\* under ADD_SUBSCRIBE, __append_history and its save_data; "before" keeps
\* the status the scan's history held for the item when the turn began
ScanTurn ==
    /\ step = "item"
    /\ scan.pc = "run"
    /\ ~TurnSkips
    /\ given.item_type = "TV"
    /\ LET cls == GetItemNoExistInfo(given.item, given.tmdbinfo, given.subs,
                      config.only_season_exist, config.only_aired,
                      given.today)
       IN \E add_ok \in [DOMAIN cls.info -> BOOLEAN] :
             LET res == ScanItemOutcome(given.item, cls,
                            config.no_exist_action, given.subs, add_ok,
                            config.only_season_exist)
             IN /\ got' = [cls |-> cls, res |-> res,
                           before |-> IF ItemOrder[scan.idx] \in DOMAIN history
                                      THEN history[ItemOrder[scan.idx]]
                                               .exist_status
                                      ELSE "none"]
                /\ history' = AppendHistory(history, ItemOrder[scan.idx],
                                  res.exist_status,
                                  TvNoExistInfo(given.item, cls.info),
                                  given.today)
    /\ store' = [ok |-> TRUE, details |-> history']
    /\ step' = "upserted"
    /\ scan' = ScanAdvanced
    /\ UNCHANGED <<given, clearflag, config, users, nops, ninits, acted,
                   history_type>>

SpecUpsert ==
    UpsertInit /\ [][ScanTurnSkipped \/ ScanTurnPassed \/ ScanTurn]_vars

\* ------------------- specification: a request served after a turn of the scan
\* settings.API_TOKEN, and the apikey a request carries
API_TOKEN == "token"
ApiKeys == {API_TOKEN, "wrong"}

\* the values of HistoryDataType
HistoryDataTypes ==
    {"ALL_EXIST", "ADDED_RSS", "NO_EXIST", "FAILED", "ALL", "LATEST",
     "NOT_ALL_NO_EXIST", "SKIPPED"}

\* the requests of get_api: an endpoint, its key or history_type, its apikey
Requests ==
    [op : UserOps, key : Keys, history_type : {"none"}, apikey : ApiKeys]
        \cup [op : {"set_history_type"}, key : {"none"},
              history_type : HistoryDataTypes \cup {"other"},
              apikey : ApiKeys]

\* "if apikey != settings.API_TOKEN: return Response(success=False)"
AuthorizedAnyToken(apikey) == TRUE

Authorized(apikey) == apikey = API_TOKEN

\* the response to a request that changed nothing
Rejected(blob, type) ==
    [success |-> FALSE, store |-> blob, history_type |-> type,
     filed |-> FALSE, requests |-> <<>>]

\* an endpoint from its first line to its return, served with nothing else
\* running in between: the response, the blob and the history type it leaves,
\* whether the filer was called and the filing requests it issued
Serve(request, blob, type, subs, add_ok, only_season_exist) ==
    IF ~Authorized(request.apikey)
    THEN Rejected(blob, type)
    ELSE IF request.op = "set_history_type"
    THEN IF request.history_type \in HistoryDataTypes
         THEN [success |-> TRUE, store |-> blob,
               history_type |-> request.history_type,
               filed |-> FALSE, requests |-> <<>>]
         ELSE Rejected(blob, type)
    ELSE IF ~blob.ok
    THEN Rejected(blob, type)
    ELSE IF request.key \notin DOMAIN blob.details
    THEN Rejected(blob, type)
    ELSE LET read == [op |-> request.op, key |-> request.key,
                      local |-> blob.details]
             saved == [ok |-> TRUE,
                       details |-> UserSaves(read, subs, add_ok,
                                             only_season_exist)]
         IN IF request.op = "add_subscribe_history"
            THEN LET f == AddSubscribeByTvNoExistInfo(
                              blob.details[request.key].tv_no_exist_info,
                              subs, add_ok, only_season_exist)
                 IN [success |-> f.ok,
                     store |-> IF f.ok THEN saved ELSE blob,
                     history_type |-> type,
                     filed |-> TRUE, requests |-> f.requests]
            ELSE [success |-> TRUE, store |-> saved, history_type |-> type,
                  filed |-> FALSE, requests |-> <<>>]

\* one request, served once the scan's turn is over
Request ==
    /\ step \in {"upserted", "skipped", "passed"}
    /\ nops < MaxUserOps
    /\ nops' = nops + 1
    /\ \E request \in Requests, subs \in SUBSET {1},
          add_ok \in [{1} -> BOOLEAN] :
          LET served == Serve(request, store, history_type, subs, add_ok,
                              config.only_season_exist)
          IN /\ got' = [request |-> request, success |-> served.success,
                        filed |-> served.filed,
                        requests |-> served.requests]
             /\ store' = served.store
             /\ history_type' = served.history_type
             /\ acted' = IF served.store # store /\ scan.pc = "run"
                         THEN acted \cup {request.key}
                         ELSE acted
    /\ step' = "served"
    /\ UNCHANGED <<given, history, scan, clearflag, config, users, ninits>>

\* a scan has read the ledger and stands at its first item, one of those the
\* ledger specification lets the collaborators answer for
SerialInit ==
    /\ given \in {[item |-> g.item, item_type |-> t, tmdbinfo |-> g.tmdbinfo,
                   subs |-> g.subs, today |-> g.today] :
                     g \in ScanGiven, t \in ItemTypes}
    /\ got = <<>>
    /\ step = "item"
    /\ history \in PriorHistories
    /\ store = IF history = <<>> THEN NoBlob
               ELSE [ok |-> TRUE, details |-> history]
    /\ scan = [pc |-> "run", idx |-> 1, no |-> 1]
    /\ clearflag = FALSE
    /\ config \in LedgerConfigs
    /\ users = [u \in UserProcs |-> NoUser]
    /\ nops = 0
    /\ ninits = 0
    /\ acted = {}
    /\ history_type = "LATEST"

SpecSerial ==
    SerialInit
        /\ [][ScanTurnSkipped \/ ScanTurnPassed \/ ScanTurn \/ Request]_vars

\* ------------------------------------------------------------------ claims
\* the countable episodes of catalog season s of the item being reconciled
Countable(s) ==
    Range(FilterEpisodes(given.tmdbinfo.episodes[s], given.only_aired,
                         given.today))

Classified == step \in {"classified", "resolved"}

\* C5: a season whose subscription exists during reconciliation is not in the
\* missing-season map, whatever the local inventory and only_season_exist are
C5_SubscriptionDedup ==
    Classified => \A s \in given.subs : s \notin DOMAIN got.cls.info

\* a subscribed catalog season with countable episodes that are not all
\* present locally, in a successful classification
C5_Witness ==
    /\ step = "classified"
    /\ got.cls.ok
    /\ \E s \in given.subs \cap given.tmdbinfo.seasons :
          /\ Countable(s) # {}
          /\ s \in DOMAIN given.item.seasoninfo
          /\ given.item.seasoninfo[s] # {}
          /\ Countable(s) \ given.item.seasoninfo[s] # {}
          /\ s \notin DOMAIN got.cls.info

\* what C6 says of season s, present locally with the episodes local
PartialMissingOf(s, local) ==
    LET missing == Countable(s) \ local
    IN IF missing = {}
       THEN s \notin DOMAIN got.cls.info
       ELSE /\ s \in DOMAIN got.cls.info
            /\ got.cls.info[s].episode_no_exist = missing
            /\ got.cls.info[s].episode_total = Cardinality(Countable(s))

\* C6: a catalog season present in the local inventory and not subscribed is
\* emitted with episode_no_exist = countable minus local and episode_total =
\* the number of countable episodes, and is not emitted when nothing is missing
C6_PartialMissing ==
    (Classified /\ got.cls.ok) =>
        \A s \in (given.tmdbinfo.seasons \cap DOMAIN given.item.seasoninfo)
                    \ given.subs :
            PartialMissingOf(s, given.item.seasoninfo[s])

\* C6 for the seasons the media server reports with at least one episode
C6_PartialMissingNonEmpty ==
    (Classified /\ got.cls.ok) =>
        \A s \in (given.tmdbinfo.seasons \cap DOMAIN given.item.seasoninfo)
                    \ given.subs :
            given.item.seasoninfo[s] # {} =>
                PartialMissingOf(s, given.item.seasoninfo[s])

\* C7: with an empty local inventory, a catalog season with countable episodes
\* and no subscription: nothing is emitted when only_season_exist is on; the
\* season is emitted with episode_no_exist = [] and episode_total = the number
\* of countable episodes when it is off
C7_WholeSeasonSuppression ==
    (Classified /\ got.cls.ok /\ given.item.seasoninfo = <<>>) =>
        \A s \in given.tmdbinfo.seasons \ given.subs :
            Countable(s) # {} =>
                IF given.only_season_exist
                THEN got.cls.info = <<>>
                ELSE /\ s \in DOMAIN got.cls.info
                     /\ got.cls.info[s].episode_no_exist = {}
                     /\ got.cls.info[s].episode_total
                            = Cardinality(Countable(s))

\* an empty inventory reconciled with only_season_exist off: a season is
\* emitted as wholly missing
C7_Witness ==
    /\ step = "classified"
    /\ got.cls.ok
    /\ given.item.seasoninfo = <<>>
    /\ ~given.only_season_exist
    /\ \E s \in given.tmdbinfo.seasons \ given.subs :
          /\ Cardinality(Countable(s)) = MaxEp
          /\ s \in DOMAIN got.cls.info
          /\ got.cls.info[s].episode_no_exist = {}

\* C8: with only_aired the filter returns exactly the episodes whose air date
\* parses and is on or before the current date; without it, every episode
C8_AirDateFilter ==
    step = "filtered" =>
        /\ Range(got) =
             {e.episode_number :
                 e \in {x \in Range(given.episodes_info) :
                           given.only_aired =>
                               /\ x.air_date.kind = "date"
                               /\ x.air_date.day <= given.today}}
        /\ Len(got) = Cardinality(Range(got))

\* C8 with the comparison the code makes: strictly before the current date
C8_AirDateFilterStrict ==
    step = "filtered" =>
        /\ Range(got) =
             {e.episode_number :
                 e \in {x \in Range(given.episodes_info) :
                           given.only_aired =>
                               /\ x.air_date.kind = "date"
                               /\ x.air_date.day < given.today}}
        /\ Len(got) = Cardinality(Range(got))

\* C9: the status a successfully classified item gets: ALL_EXIST for an empty
\* missing map; else ADDED_RSS / NO_EXIST by the filer's answer under
\* ADD_SUBSCRIBE, ALL_EXIST under SET_ALL_EXIST, NO_EXIST under anything else
C9_StatusResolution ==
    (step = "resolved" /\ got.cls.ok) =>
        got.res.exist_status =
            IF got.cls.info = <<>> THEN "ALL_EXIST"
            ELSE IF got.no_exist_action = "ADD_SUBSCRIBE"
                 THEN IF got.res.filer.ok THEN "ADDED_RSS" ELSE "NO_EXIST"
                 ELSE IF got.no_exist_action = "SET_ALL_EXIST"
                      THEN "ALL_EXIST"
                      ELSE "NO_EXIST"

\* gaps found, ADD_SUBSCRIBE configured, a filing request refused
C9_Witness ==
    /\ step = "resolved"
    /\ got.cls.ok
    /\ got.cls.info # <<>>
    /\ got.no_exist_action = "ADD_SUBSCRIBE"
    /\ got.res.filer.requests # <<>>
    /\ ~got.res.filer.ok
    /\ got.res.exist_status = "NO_EXIST"

\* the filing request i of the filer's run was refused after an earlier one
\* was granted
RefusedAfterGranted(i) ==
    /\ ~got.answers[got.res.filer.requests[i].season]
    /\ \E j \in 1..(i - 1) : got.answers[got.res.filer.requests[j].season]

\* C10: when a filing request is refused after an earlier one was granted, the
\* filer returns false, issues no further request, leaves the granted
\* subscription in place, and the item's status is NO_EXIST
C10_FilingAbandonment ==
    (step = "resolved" /\ got.res.filed) =>
        \A i \in DOMAIN got.res.filer.requests :
            RefusedAfterGranted(i) =>
                /\ ~got.res.filer.ok
                /\ i = Len(got.res.filer.requests)
                /\ \A j \in 1..(i - 1) :
                      got.answers[got.res.filer.requests[j].season] =>
                          got.res.filer.requests[j].season
                              \in got.res.filer.subs
                /\ got.res.exist_status = "NO_EXIST"

\* three seasons to file: the first granted, the second refused, the third
\* never requested
C10_Witness ==
    /\ step = "resolved"
    /\ got.res.filed
    /\ DOMAIN got.cls.info = FilerSeasons
    /\ Len(got.res.filer.requests) = 2
    /\ RefusedAfterGranted(2)
    /\ got.res.filer.subs = given.subs \cup {1}
    /\ got.res.exist_status = "NO_EXIST"

\* the local episodes of catalog season s of the item being reconciled
LocalEpisodes(s) ==
    IF s \in DOMAIN given.item.seasoninfo
    THEN given.item.seasoninfo[s]
    ELSE {}

\* every catalog season with countable episodes has them all locally or has a
\* subscription
FullyExistsOrSubscribed ==
    \A s \in given.tmdbinfo.seasons :
        Countable(s) # {} =>
            (s \in given.subs \/ Countable(s) \subseteq LocalEpisodes(s))

\* C20: for a successfully classified series the missing-season map is empty
\* if and only if the series fully exists or is subscribed
C20_ResultInvariant ==
    (Classified /\ got.cls.ok) =>
        (got.cls.info = <<>> <=> FullyExistsOrSubscribed)

\* C20 with the seasons only_season_exist suppresses: the map is empty if and
\* only if every catalog season with countable episodes has them all locally,
\* has a subscription, or, under only_season_exist, has no local episode
C20_ResultInvariantSuppressed ==
    (Classified /\ got.cls.ok) =>
        (got.cls.info = <<>> <=>
            \A s \in given.tmdbinfo.seasons :
                Countable(s) # {} =>
                    \/ s \in given.subs
                    \/ Countable(s) \subseteq LocalEpisodes(s)
                    \/ (given.only_season_exist /\ LocalEpisodes(s) = {}))

\* an empty map for a series with a season wholly missing and not subscribed,
\* beside a season that is complete
C20_Witness ==
    /\ step = "classified"
    /\ got.cls.ok
    /\ got.cls.info = <<>>
    /\ given.only_season_exist
    /\ \E s \in given.tmdbinfo.seasons \ given.subs :
          Countable(s) # {} /\ s \notin DOMAIN given.item.seasoninfo
    /\ \E s \in given.tmdbinfo.seasons \ given.subs :
          Countable(s) # {} /\ Countable(s) \subseteq LocalEpisodes(s)

\* --------------------------------------------------- claims on the ledger
\* record k of a blob's details, or "absent"
Persisted(details, k) ==
    IF k \in DOMAIN details THEN <<"record", details[k]>> ELSE <<"absent">>

\* this step is the scan's upsert (__append_history and its save_data) for key
ScanUpserts(key) ==
    /\ scan.pc = "run"
    /\ ItemOrder[scan.idx] = key
    /\ scan' # scan
    /\ history' # history

\* this step is the save_data of a user action on key
UserSavesOn(key) ==
    \E u \in UserProcs :
        /\ users[u].pc = "read"
        /\ users[u].key = key
        /\ users'[u].pc = "idle"
        /\ store' # store

\* a read-modify-write cycle of the ledger is open: a request between its
\* get_data and its save_data, the scan between its get_data and its last
\* save_data
OpenCycles ==
    Cardinality({u \in UserProcs : users[u].pc = "read"})
        + (IF scan.pc = "run" THEN 1 ELSE 0)

\* C1: what a user action on key k persisted while a scan is in progress is
\* still persisted after every later upsert of that scan for another key
C1_NoLostUpdate ==
    [][\A key \in Keys :
          ScanUpserts(key) =>
              \A k \in acted \ {key} :
                  Persisted(store'.details, k) = Persisted(store.details, k)]_vars

\* C2: no two read-modify-write cycles of the ledger overlap
C2_MutualExclusion == OpenCycles <= 1

\* C3: two concurrent user actions on different keys both take effect: when
\* one saves, what the other persisted for its key stays persisted
C3_UserActionsBothApply ==
    [][\A key \in Keys :
          UserSavesOn(key) =>
              \A k \in Keys \ {key} :
                  Persisted(store'.details, k) = Persisted(store.details, k)]_vars

\* C4: once the persisted record of a key has skip = true, a scan's upsert of
\* that key leaves it true
C4_SkipMonotonic ==
    [][\A key \in Keys :
          (/\ ScanUpserts(key)
           /\ key \in DOMAIN store.details
           /\ store.details[key].skip)
              => store'.details[key].skip]_vars

\* the fields of a record that hold a time (last_update_full is last_update
\* written out in full)
TimeFields == {"last_update"}

\* this step is the scan's upsert for a key the persisted ledger holds
ScanUpsertsExisting(key) ==
    /\ ScanUpserts(key)
    /\ key \in DOMAIN store.details
    /\ key \in DOMAIN store'.details

\* C13: a record carries a first-found time, set when the record is created
\* and left as it is by every later upsert of the key: some time of the record
\* is the same after an upsert of an existing key
C13_FirstFoundPersists ==
    [][\A key \in Keys :
          ScanUpsertsExisting(key) =>
              \E f \in TimeFields :
                  store'.details[key][f] = store.details[key][f]]_vars

\* C14: a record carries a last-status-change time, which an upsert of an
\* existing key changes if and only if the incoming exist_status differs from
\* the stored one
C14_StatusChangeTime ==
    [][\A key \in Keys :
          ScanUpsertsExisting(key) =>
              \E f \in TimeFields :
                  (store'.details[key][f] # store.details[key][f])
                      <=> (store'.details[key].exist_status
                              # store.details[key].exist_status)]_vars

\* C15: whatever happens while the scan works on an item, a failing
\* collaborator call included, the scan goes on with the next item
C15_FailureContained ==
    [][\A i \in 1..(Len(ItemOrder) - 1) :
          (scan.pc = "run" /\ scan.idx = i /\ scan' # scan)
              => (scan'.pc = "run" /\ scan'.idx = i + 1)]_vars

\* this step is the scan's turn for the item of key
ScanTurnsTo(key) ==
    /\ scan.pc = "run"
    /\ ItemOrder[scan.idx] = key
    /\ scan' # scan

\* C19: the scan's turn for an item whose persisted record has skip = true
\* classifies nothing, upserts nothing and leaves the record as it is
C19_SkippedUntouched ==
    [][\A key \in Keys :
          (/\ ScanTurnsTo(key)
           /\ key \in DOMAIN store.details
           /\ store.details[key].skip)
              => (/\ history' = history
                  /\ Persisted(store'.details, key)
                        = Persisted(store.details, key))]_vars

\* ------------------------------------------------- claims on the filing
\* C11: a filing request for a season is issued only when no subscription for
\* that season exists at that moment, also when two filers run concurrently
C11_FilingRaceGuard ==
    \A i \in DOMAIN got.requests : ~got.requests[i].existed

ClassificationFails ==
    \/ given.item_type # "TV"
    \/ ~given.item.tmdbid
    \/ ~given.tmdbinfo.found

\* the persisted ledger holds the item with status FAILED
RecordedFailed ==
    /\ store.ok
    /\ UpsertKey \in DOMAIN store.details
    /\ store.details[UpsertKey].exist_status = "FAILED"

\* C16: whenever the classification of a scanned item fails (no tmdbid, media
\* type not TV, nothing found by the lookup), the scan upserts the item with
\* status FAILED
C16_FailureRecorded ==
    (step \in {"upserted", "passed"} /\ ClassificationFails)
        => RecordedFailed

\* C16 for the items the scan classifies, which are the TV items: a failed
\* classification is upserted as FAILED
C16_TvFailureRecorded ==
    (/\ step = "upserted"
     /\ (~got.cls.ok \/ ~given.item.tmdbid \/ ~given.tmdbinfo.found))
        => (~got.cls.ok /\ RecordedFailed)

\* a TV item with a tmdbid the lookup finds nothing for, recorded as FAILED
C16_Witness ==
    /\ step = "upserted"
    /\ given.item.tmdbid
    /\ ~given.tmdbinfo.found
    /\ ~got.cls.ok
    /\ RecordedFailed

\* ------------------------------------------------- claims on the requests
\* this step serves a request
Serves == step # "served" /\ step' = "served"

\* C17: delete_history, set_all_exist_history, toggle_skip_history and
\* add_subscribe_history for a key the ledger does not hold answer failure and
\* leave the persisted ledger as it is; the scan's upsert always stores the
\* record, creating it when the key is absent
C17_NotFound ==
    [][/\ (/\ Serves
           /\ got'.request.op \in UserOps
           /\ got'.request.apikey = API_TOKEN
           /\ got'.request.key \notin DOMAIN store.details)
          => (~got'.success /\ store' = store)
       /\ step' = "upserted"
          => (/\ store'.ok
              /\ ItemOrder[scan.idx] \in DOMAIN store'.details)]_vars

\* a delete_history for a key the ledger lacks was refused, after the scan
\* created the record of the item it stood at
C17_Witness ==
    /\ step = "served"
    /\ got.request.op = "delete_history"
    /\ got.request.apikey = API_TOKEN
    /\ store.ok
    /\ got.request.key \notin DOMAIN store.details
    /\ UpsertKey \in DOMAIN store.details
    /\ UpsertKey \notin DOMAIN history \/ history[UpsertKey].last_update # 0
    /\ ~got.success

\* C18: a request whose apikey is not the configured token answers failure,
\* changes neither the ledger nor the history type and calls no collaborator
C18_AuthorizationFailed ==
    [][(Serves /\ got'.request.apikey # API_TOKEN)
          => (/\ ~got'.success
              /\ store' = store
              /\ history_type' = history_type
              /\ ~got'.filed
              /\ got'.requests = <<>>)]_vars

\* set_history_type and add_subscribe_history refused for a wrong apikey
C18_Witness ==
    /\ step = "served"
    /\ got.request.apikey # API_TOKEN
    /\ got.request.op \in {"set_history_type", "add_subscribe_history"}
    /\ got.request.op = "set_history_type"
          => got.request.history_type \in HistoryDataTypes \ {history_type}
    /\ got.request.op = "add_subscribe_history"
          => /\ store.ok
             /\ got.request.key \in DOMAIN store.details
             /\ store.details[got.request.key].exist_status = "NO_EXIST"
    /\ ~got.success

\* ------------------------------------- claims on the seasons of an item
\* C21: a catalog season the media server reports with an empty episode list,
\* not subscribed, is emitted with episode_no_exist = all its countable
\* episodes, whatever only_season_exist is
C21_EmptySeasonPresent ==
    (Classified /\ got.cls.ok) =>
        \A s \in (given.tmdbinfo.seasons \cap DOMAIN given.item.seasoninfo)
                    \ given.subs :
            (given.item.seasoninfo[s] = {} /\ Countable(s) # {}) =>
                /\ s \in DOMAIN got.cls.info
                /\ got.cls.info[s].episode_no_exist = Countable(s)

\* what the reconciliation does with catalog season s when the inventory has
\* no entry for it: the season is emitted, as wholly missing, exactly when
\* only_season_exist is off, the season has countable episodes and no
\* subscription
AbsentSeasonDecision(s) ==
    IF ~given.only_season_exist /\ Countable(s) # {} /\ s \notin given.subs
    THEN /\ s \in DOMAIN got.cls.info
         /\ got.cls.info[s]
               = SeasonInfo(s, {}, Cardinality(Countable(s)))
    ELSE s \notin DOMAIN got.cls.info

\* C22: whether a catalog season absent from the inventory is emitted depends
\* on only_season_exist, its countable episodes and its subscription alone:
\* the decision is the same with an empty inventory and with an inventory
\* that holds other seasons
C22_PerSeasonRule ==
    (Classified /\ got.cls.ok) =>
        \A s \in given.tmdbinfo.seasons \ DOMAIN given.item.seasoninfo :
            AbsentSeasonDecision(s)

\* an absent season emitted beside a season the inventory holds with episodes
C22_Witness ==
    /\ step = "classified"
    /\ got.cls.ok
    /\ ~given.only_season_exist
    /\ \E s \in given.tmdbinfo.seasons \ DOMAIN given.item.seasoninfo :
          /\ s \in DOMAIN got.cls.info
          /\ \E t \in DOMAIN given.item.seasoninfo \cap given.tmdbinfo.seasons :
                given.item.seasoninfo[t] # {} /\ Countable(t) # {}

\* ------------------------------ specification: the filer on a stored result
\* the season_episode_no_exist_info a record holds: written by a scan under
\* the options of its time, each season wholly missing (empty list) or with
\* episode 1 missing
StoredInfos ==
    UNION {{[s \in D |-> SeasonInfo(s, e[s], MaxEp)] :
               e \in [D -> {{}, {1}}]} : D \in SUBSET FilerSeasons}

\* the filer is about to run on a stored tv_no_exist_info, under the options
\* of now
StoredInit ==
    /\ given \in [tv_no_exist_info :
                     {[title |-> TRUE, year |-> TRUE, tmdbid |-> TRUE,
                       season_episode_no_exist_info |-> i] : i \in StoredInfos},
                  subs : SUBSET FilerSeasons,
                  only_season_exist : BOOLEAN]
    /\ got = <<>>
    /\ step = "stored"
    /\ LedgerIdle

\* __add_subscribe_by_tv_no_exist_info, the subscription service answering
\* add_ok[season] to a filing request
FileStored ==
    /\ step = "stored"
    /\ \E add_ok \in [FilerSeasons -> BOOLEAN] :
          got' = [filer |-> AddSubscribeByTvNoExistInfo(
                                given.tv_no_exist_info, given.subs, add_ok,
                                given.only_season_exist),
                  answers |-> add_ok]
    /\ step' = "filed"
    /\ UNCHANGED <<given, ledgerVars>>

SpecStored == StoredInit /\ [][FileStored]_vars

\* the seasons of the stored result with a non-empty missing-episode list
PartlyMissing ==
    {s \in DOMAIN given.tv_no_exist_info.season_episode_no_exist_info :
        given.tv_no_exist_info.season_episode_no_exist_info[s]
            .episode_no_exist # {}}

\* C23: while only_season_exist is on the filer issues no request for a season
\* whose missing-episode list is empty; passing over such a season is no
\* failure, and the other seasons are filed: when every request is granted
\* the filer answers true and has requested every other unsubscribed season
C23_WholeSeasonNotFiled ==
    (step = "filed" /\ given.only_season_exist) =>
        /\ \A i \in DOMAIN got.filer.requests :
              got.filer.requests[i].season \in PartlyMissing
        /\ (/\ given.tv_no_exist_info.season_episode_no_exist_info # <<>>
            /\ \A s \in PartlyMissing \ given.subs : got.answers[s])
              => /\ got.filer.ok
                 /\ {r.season : r \in Range(got.filer.requests)}
                       = PartlyMissing \ given.subs

\* season 1 wholly missing and passed over, season 2 filed after it
C23_Witness ==
    /\ step = "filed"
    /\ given.only_season_exist
    /\ given.subs = {}
    /\ 1 \in DOMAIN given.tv_no_exist_info.season_episode_no_exist_info
                \ PartlyMissing
    /\ 2 \in PartlyMissing
    /\ got.filer.ok
    /\ got.filer.requests = <<[season |-> 2, total_episode |-> MaxEp]>>

\* C24: the episode total of a filing request is the number of episodes the
\* catalog lists for the season, air dates disregarded, when that number is
\* not zero, and the number of countable episodes otherwise
C24_UnfilteredTotal ==
    step = "resolved" =>
        \A i \in DOMAIN got.res.filer.requests :
            LET season == got.res.filer.requests[i].season
                unfiltered == Len(given.tmdbinfo.episodes[season])
            IN got.res.filer.requests[i].total_episode
                  = IF unfiltered # 0 THEN unfiltered
                    ELSE Cardinality(Countable(season))

\* --------------------------------- specification: the save path of a filing
\* strings are sequences of characters
IsPrefix(p, str) == Len(p) <= Len(str) /\ SubSeq(str, 1, Len(p)) = p

\* "sub in str"
Contains(sub, str) ==
    \E i \in 1..(Len(str) - Len(sub) + 1) :
        SubSeq(str, i, i + Len(sub) - 1) = sub

\* str.split(":")
RECURSIVE Split(_)
Split(str) ==
    IF \E i \in DOMAIN str : str[i] = ":"
    THEN LET i == CHOOSE j \in DOMAIN str :
                     str[j] = ":" /\ \A k \in 1..(j - 1) : str[k] # ":"
         IN <<SubSeq(str, 1, i - 1)>> \o Split(SubSeq(str, i + 1, Len(str)))
    ELSE <<str>>

\* replace_list: the non-empty parts of a line of the option
ReplaceList(save_path_replace) ==
    SelectSeq(Split(save_path_replace), LAMBDA part : part # <<>>)

\* str.replace(old, new): every occurrence of old, from the left
RECURSIVE StrReplace(_, _, _)
StrReplace(str, old, new) ==
    IF Len(str) < Len(old)
    THEN str
    ELSE IF IsPrefix(old, str)
         THEN new \o StrReplace(SubSeq(str, Len(old) + 1, Len(str)), old, new)
         ELSE <<Head(str)>> \o StrReplace(Tail(str), old, new)

\* str(Path(save_path).parent) of an absolute path "/d1/.../dn", n >= 1
Parent(save_path) ==
    LET i == CHOOSE j \in DOMAIN save_path :
                 save_path[j] = "/"
                     /\ \A k \in (j + 1)..Len(save_path) : save_path[k] # "/"
    IN IF i = 1 THEN <<"/">> ELSE SubSeq(save_path, 1, i - 1)

\* save_path_replaced = None
NotReplaced == [rule |-> 0, path |-> <<>>]

\* the loop over self._save_path_replaces from line n on: the line that was
\* applied and save_path_replaced
RECURSIVE SavePathReplace(_, _, _)
SavePathReplace(save_path_replaces, save_path, n) ==
    IF n > Len(save_path_replaces)
    THEN NotReplaced
    ELSE LET replace_list == ReplaceList(save_path_replaces[n])
         IN IF Len(replace_list) < 2
            THEN SavePathReplace(save_path_replaces, save_path, n + 1)
            ELSE IF Contains(replace_list[1], save_path)
                 THEN [rule |-> n,
                       path |-> StrReplace(Parent(save_path), replace_list[1],
                                           replace_list[2])]
                 ELSE SavePathReplace(save_path_replaces, save_path, n + 1)

\* __checke_and_add_subscribe up to the existence check
SavePathReplaced(save_path_replaces, save_path) ==
    IF save_path_replaces # <<>> /\ save_path # <<>>
    THEN SavePathReplace(save_path_replaces, save_path, 1)
    ELSE NotReplaced

\* "/d1/.../dn"
RECURSIVE PathOf(_)
PathOf(dirs) ==
    IF dirs = <<>> THEN <<>>
    ELSE <<"/", Head(dirs)>> \o PathOf(Tail(dirs))

\* tv_no_exist_info["path"]: none, or an absolute path of directories a, b
SavePaths ==
    {<<>>} \cup {PathOf(d) : d \in UNION {[1..n -> {"a", "b"}] : n \in 1..MaxSegs}}

\* lines of the option: "lib:save", and lines without a second part
SavePathReplaceLines ==
    {lib \o <<":">> \o save :
        lib \in {<<"a">>, <<"/", "a">>, <<"/", "b">>, <<"/", "a", "/", "b">>},
        save \in {<<"/", "x">>, <<"/", "y">>}}
        \cup {<<"/", "a">>, <<"/", "a", ":">>}

SavePathInit ==
    /\ given \in [save_path_replaces :
                     UNION {[1..n -> SavePathReplaceLines] : n \in 0..MaxRules},
                  save_path : SavePaths]
    /\ got = <<>>
    /\ step = "path"
    /\ LedgerIdle

ReplaceSavePath ==
    /\ step = "path"
    /\ got' = SavePathReplaced(given.save_path_replaces, given.save_path)
    /\ step' = "replaced"
    /\ UNCHANGED <<given, ledgerVars>>

SpecSavePath == SavePathInit /\ [][ReplaceSavePath]_vars

\* line n of the option has two parts, the first a prefix of the path
PrefixRule(n) ==
    /\ Len(ReplaceList(given.save_path_replaces[n])) >= 2
    /\ IsPrefix(ReplaceList(given.save_path_replaces[n])[1], given.save_path)

\* C25: the line applied is the first whose first part is a prefix of the
\* series' path, no line is applied when there is none, and the result is the
\* directory of the series with that prefix replaced and the rest as it was
C25_ExactPrefix ==
    step = "replaced" =>
        /\ got.rule # 0 =>
              /\ got.rule \in DOMAIN given.save_path_replaces
              /\ PrefixRule(got.rule)
              /\ LET replace_list ==
                         ReplaceList(given.save_path_replaces[got.rule])
                     parent == Parent(given.save_path)
                 IN IsPrefix(replace_list[1], parent) =>
                        got.path = replace_list[2]
                            \o SubSeq(parent, Len(replace_list[1]) + 1,
                                      Len(parent))
        /\ \A n \in DOMAIN given.save_path_replaces :
              (given.save_path # <<>> /\ PrefixRule(n)) =>
                  (got.rule # 0 /\ got.rule <= n)

\* ------------------------------------------ specification: the detail page
\* the ledger get_page builds its lists from: what its get_data("history")
\* returned, whatever is persisted by the time the lists are built
PageLedgerReread(historys, persisted) == persisted

PageLedger(historys, persisted) == historys

\* the list status_to_list gives for a status: the keys of its records
StatusList(details, status) ==
    {key \in DOMAIN details : details[key].exist_status = status}

\* __get_season_episode_no_exist_info: the season entries of a record
SeasonEpisodeNoExistInfoValues(record) ==
    Range(record.tv_no_exist_info.season_episode_no_exist_info)

\* history_not_all_no_exist
HistoryNotAllNoExistEverySeason(details) ==
    {key \in DOMAIN details :
        /\ details[key].exist_status = "NO_EXIST"
        /\ \A season_info \in SeasonEpisodeNoExistInfoValues(details[key]) :
              season_info.episode_no_exist # {}}

HistoryNotAllNoExist(details) ==
    {key \in StatusList(details, "NO_EXIST") :
        \E season_info \in SeasonEpisodeNoExistInfoValues(details[key]) :
            season_info.episode_no_exist # {}}

\* the lists of get_page by history type, as sets of keys (each list is
\* sorted by last_update_full; history_all[:10] is all of history_all for a
\* ledger of at most ten records)
HistoryLists(details) ==
    [type \in HistoryDataTypes |->
        IF type \in {"FAILED", "ADDED_RSS", "ALL_EXIST", "NO_EXIST"}
        THEN StatusList(details, type)
        ELSE IF type = "SKIPPED"
             THEN {key \in DOMAIN details : details[key].skip}
             ELSE IF type = "NOT_ALL_NO_EXIST"
                  THEN HistoryNotAllNoExist(details)
                  ELSE DOMAIN details]

\* get_page after its get_data("history"): "暂无数据" for an empty answer, else
\* the lists, and the one shown for the saved history type
GetPage(historys, persisted, saved_history_type) ==
    LET read == PageLedger(historys, persisted)
    IN IF ~read.ok
       THEN [historys |-> read, lists |-> <<>>, historys_in_type |-> {}]
       ELSE [historys |-> read,
             lists |-> HistoryLists(read.details),
             historys_in_type |->
                 HistoryLists(read.details)[saved_history_type]]

\* get_page's get_data("history")
PageRead ==
    /\ step = "ledger"
    /\ given' = store
    /\ step' = "reading"
    /\ UNCHANGED <<got, ledgerVars>>

\* the rest of get_page, with its get_data("current_history_type")
PageBuilt ==
    /\ step = "reading"
    /\ got' = GetPage(given, store, history_type)
    /\ step' = "shown"
    /\ UNCHANGED <<given, ledgerVars>>

\* the detail page opened once while the writers of the ledger go on: the
\* scan with its clear, its skips and its upserts, and the requests
NextPage ==
    \/ InitPlugin
    \/ ScanStart
    \/ ScanSkip
    \/ ScanItem
    \/ \E u \in UserProcs : UserRead(u)
    \/ \E u \in UserProcs : UserWrite(u)
    \/ PageRead
    \/ PageBuilt

SpecPage == Init /\ [][NextPage]_vars

\* C26: the ledger a page shows is the persisted blob as one get_data
\* returned it, whole, which is what the last completed save_data wrote; no
\* write that completes while the page is built shows in it
C26_ReaderConsistency ==
    [][/\ (step = "ledger" /\ step' = "reading") => given' = store
       /\ (step = "reading" /\ step' = "shown") =>
              /\ got'.historys = given
              /\ given.ok => got'.lists["ALL"] = DOMAIN given.details]_vars

\* a page of a ledger a writer has changed since the page read it
C26_Witness ==
    /\ step = "shown"
    /\ got.historys.ok
    /\ store.ok
    /\ got.historys # store
    /\ \E key \in DOMAIN store.details \cap DOMAIN got.historys.details :
          store.details[key] # got.historys.details[key]

\* ------------------------------- specification: the lists of the detail page
\* the records a ledger can hold: a status a scan or a request stored, and a
\* result whose seasons are wholly or partly missing
PartitionRecords ==
    {HistoryDetail(status,
                   [title |-> TRUE, year |-> TRUE, tmdbid |-> TRUE,
                    season_episode_no_exist_info |-> i],
                   0, FALSE) :
        status \in HistoryStatus \ {"UNKNOW"},
        i \in {j \in StoredInfos : DOMAIN j \subseteq Seasons}}

\* what get_data("history") answers: nothing, or a ledger of such records
PartitionBlobs ==
    {NoBlob} \cup
        {[ok |-> TRUE, details |-> d] :
            d \in UNION {[D -> PartitionRecords] : D \in SUBSET Keys}}

\* the page is opened on a persisted ledger, under a saved history type
PartitionInit ==
    /\ given = <<>>
    /\ got = <<>>
    /\ step = "ledger"
    /\ store \in PartitionBlobs
    /\ history = <<>>
    /\ scan = [pc |-> "idle", idx |-> 0, no |-> 0]
    /\ clearflag = FALSE
    /\ config = DefaultConfig
    /\ users = [u \in UserProcs |-> NoUser]
    /\ nops = 0
    /\ ninits = 0
    /\ acted = {}
    /\ history_type \in HistoryDataTypes

SpecPartition == PartitionInit /\ [][PageRead \/ PageBuilt]_vars

\* the record has status NO_EXIST and a season with a non-empty
\* missing-episode list
PartlyMissingRecord(record) ==
    /\ record.exist_status = "NO_EXIST"
    /\ \E s \in DOMAIN record.tv_no_exist_info.season_episode_no_exist_info :
          record.tv_no_exist_info.season_episode_no_exist_info[s]
              .episode_no_exist # {}

\* C30: the list of type NOT_ALL_NO_EXIST holds exactly the records with
\* status NO_EXIST that have a season with a non-empty missing-episode list;
\* it is a part of the NO_EXIST list, and it is the list shown under that type
C30_PartialSeasonMissing ==
    (step = "shown" /\ got.historys.ok) =>
        /\ got.lists["NOT_ALL_NO_EXIST"]
              = {key \in DOMAIN given.details :
                    PartlyMissingRecord(given.details[key])}
        /\ got.lists["NOT_ALL_NO_EXIST"] \subseteq got.lists["NO_EXIST"]
        /\ history_type = "NOT_ALL_NO_EXIST"
              => got.historys_in_type = got.lists["NOT_ALL_NO_EXIST"]

\* two NO_EXIST records: one with wholly missing seasons only, left out, one
\* with a wholly and a partly missing season, listed
C30_Witness ==
    /\ step = "shown"
    /\ got.historys.ok
    /\ got.lists["NO_EXIST"] = Keys
    /\ Cardinality(got.lists["NOT_ALL_NO_EXIST"]) = 1
    /\ \A key \in Keys :
          DOMAIN given.details[key].tv_no_exist_info
                     .season_episode_no_exist_info = Seasons
    /\ \E key \in got.lists["NOT_ALL_NO_EXIST"], s \in Seasons :
          given.details[key].tv_no_exist_info
              .season_episode_no_exist_info[s].episode_no_exist = {}

\* ------------------------------------------ claims on the ledger's keys
\* this step is the save_data of a delete_history for key
DeleteSaves(key) ==
    \E u \in UserProcs :
        /\ users[u].pc = "read"
        /\ users[u].op = "delete_history"
        /\ users[u].key = key
        /\ users'[u].pc = "idle"

\* C27: a key the persisted ledger holds stays in it through every step of a
\* scan, whether the media server still lists its item or not; the only step
\* that takes a key out of the ledger is a delete_history for that key
C27_NeverAutoDeleted ==
    [][\A key \in Keys :
          (key \in DOMAIN store.details /\ key \notin DOMAIN store'.details)
              => DeleteSaves(key)]_vars

\* ------------------------------- claims on the media server's listings
\* the episode listing of a TV item with a tmdbid returned nothing:
\* "espisodes_info = self._msChain.episodes(...) or []" leaves seasoninfo = {}
EpisodeListingEmpty ==
    /\ given.item_type = "TV"
    /\ given.item.tmdbid
    /\ given.item.seasoninfo = <<>>

\* C28: when the media server's listing for an item returns nothing, the scan
\* passes the item over: its turn creates no record and changes none
C28_ServiceUnavailable ==
    [][(/\ step = "item"
        /\ step' # "item"
        /\ ~TurnSkips
        /\ EpisodeListingEmpty)
          => (/\ store' = store
              /\ history' = history)]_vars

\* ------------------------------ specification: the catalog's season lookup
\* what self._tmdbChain.tmdb_episodes does: it returns a list, returns None,
\* or raises
TmdbEpisodesAnswers ==
    {[kind |-> "list", episodes |-> l] : l \in EpisodeLists(AirDates)}
        \cup {[kind |-> k, episodes |-> <<>>] : k \in {"none", "raise"}}

\* __filter_episodes on that answer: nothing catches what tmdb_episodes
\* raises, and "for episode in episodes_info" raises TypeError on None
FilterEpisodesCall(answer, only_aired, today) ==
    IF answer.kind = "list"
    THEN [raised |-> FALSE,
          episodes |-> FilterEpisodes(answer.episodes, only_aired, today)]
    ELSE [raised |-> TRUE, episodes |-> <<>>]

LookupInit ==
    /\ given \in [answer : TmdbEpisodesAnswers, only_aired : BOOLEAN,
                  today : Days]
    /\ got = <<>>
    /\ step = "lookup"
    /\ LedgerIdle

Lookup ==
    /\ step = "lookup"
    /\ got' = FilterEpisodesCall(given.answer, given.only_aired, given.today)
    /\ step' = "answered"
    /\ UNCHANGED <<given, ledgerVars>>

SpecLookup == LookupInit /\ [][Lookup]_vars

\* C29: when the catalog's season lookup fails or returns nothing, the filter
\* returns the empty list (for which the reconciliation passes the season
\* over and goes on with the next)
C29_FilterFailsSoftly ==
    (/\ step = "answered"
     /\ (given.answer.kind # "list" \/ given.answer.episodes = <<>>))
        => (~got.raised /\ got.episodes = <<>>)

\* ------------------------------------ claims on the status a scan writes
\* this step is the scan's turn for a TV item whose record, as the scan read
\* it, has status FAILED and no skip flag
TurnOnFailed ==
    /\ step = "item"
    /\ step' # "item"
    /\ given.item_type = "TV"
    /\ UpsertKey \in DOMAIN history
    /\ history[UpsertKey].exist_status = "FAILED"
    /\ ~history[UpsertKey].skip

\* C31: a record with status FAILED and skip = false is reconciled again by
\* the scan that next meets its item, and when the classification succeeds the
\* record it writes has status ALL_EXIST, NO_EXIST or ADDED_RSS
C31_FailedRetried ==
    [][TurnOnFailed =>
          /\ step' = "upserted"
          /\ got'.cls.ok =>
                store'.details[UpsertKey].exist_status
                    \in {"ALL_EXIST", "NO_EXIST", "ADDED_RSS"}]_vars

\* a FAILED record reconciled again with success and written as NO_EXIST
C31_Witness ==
    /\ step = "upserted"
    /\ got.before = "FAILED"
    /\ ~store.details[UpsertKey].skip
    /\ got.cls.ok
    /\ got.cls.info # <<>>
    /\ store.details[UpsertKey].exist_status = "NO_EXIST"
    /\ store.details[UpsertKey].last_update = given.today
    /\ config.no_exist_action = "ONLY_HISTORY"

\* C33: under ONLY_HISTORY and under SET_ALL_EXIST the turn of an item calls
\* the filer for no season, whatever the reconciliation found: no filing
\* request is issued and the subscriptions are as they were
C33_NoFilingUnlessSubscribe ==
    (step = "resolved"
        /\ got.no_exist_action \in {"ONLY_HISTORY", "SET_ALL_EXIST"}) =>
        /\ ~got.res.filed
        /\ got.res.filer.requests = <<>>
        /\ got.res.filer.subs = given.subs

\* a series with a partly missing, unsubscribed season resolved under
\* SET_ALL_EXIST: ALL_EXIST, nothing filed
C33_Witness ==
    /\ step = "resolved"
    /\ got.no_exist_action = "SET_ALL_EXIST"
    /\ given.item.title
    /\ given.item.year
    /\ \E s \in DOMAIN got.cls.info \ given.subs :
          got.cls.info[s].episode_no_exist # {}
    /\ got.res.exist_status = "ALL_EXIST"
    /\ got.res.filer.requests = <<>>

\* ------------------------------------- claims on the status ADDED_RSS
\* season s of the stored result had a subscription, or a filing request for
\* it was granted during the filer's run
SubscribedOrFiled(s) ==
    \/ s \in given.subs
    \/ \E i \in DOMAIN got.filer.requests :
          got.filer.requests[i].season = s /\ got.answers[s]

\* C34: the filer answers true, which is when the scan or
\* add_subscribe_history writes ADDED_RSS, only if every season of the stored
\* missing-season map had a subscription or was filed with success, whatever
\* only_season_exist is by then
C34_AddedOnlyIfAllFiled ==
    (step = "filed" /\ got.filer.ok) =>
        \A s \in DOMAIN given.tv_no_exist_info.season_episode_no_exist_info :
            SubscribedOrFiled(s)

\* C34 for the seasons the filer does not pass over: those with a non-empty
\* missing-episode list, and every season when only_season_exist is off
C34_AddedOnlyIfFiled ==
    (step = "filed" /\ got.filer.ok) =>
        \A s \in DOMAIN given.tv_no_exist_info.season_episode_no_exist_info :
            (s \in PartlyMissing \/ ~given.only_season_exist)
                => SubscribedOrFiled(s)

\* the filer answered true with a partly missing season filed and a wholly
\* missing season, stored while only_season_exist was off, passed over
C34_Witness ==
    /\ step = "filed"
    /\ got.filer.ok
    /\ given.only_season_exist
    /\ \E s \in PartlyMissing \ given.subs : SubscribedOrFiled(s)
    /\ \E s \in DOMAIN given.tv_no_exist_info.season_episode_no_exist_info
                   \ PartlyMissing :
          ~SubscribedOrFiled(s)

\* C35: add_subscribe_history with the right apikey for a key the ledger
\* holds: when the filer answers true the persisted ledger is the one before
\* with that record's exist_status set to ADDED_RSS and nothing else changed;
\* when the filer answers false the persisted ledger is left as it was
C35_AddSubscribeHistory ==
    [][(/\ Serves
        /\ got'.request.op = "add_subscribe_history"
        /\ got'.request.apikey = API_TOKEN
        /\ store.ok
        /\ got'.request.key \in DOMAIN store.details)
          => /\ got'.filed
             /\ IF got'.success
                THEN store' = [ok |-> TRUE,
                               details |->
                                   [store.details
                                       EXCEPT ![got'.request.key].exist_status
                                                  = "ADDED_RSS"]]
                ELSE store' = store]_vars

\* add_subscribe_history filed the missing season of a skip-flagged NO_EXIST
\* record the scan passed over, and the record now reads ADDED_RSS with its
\* skip flag kept
C35_Witness ==
    /\ step = "served"
    /\ got.request.op = "add_subscribe_history"
    /\ got.request.apikey = API_TOKEN
    /\ got.success
    /\ got.requests # <<>>
    /\ got.request.key \in DOMAIN history
    /\ got.request.key \in DOMAIN store.details
    /\ history[got.request.key].exist_status = "NO_EXIST"
    /\ history[got.request.key].skip
    /\ store.details[got.request.key].exist_status = "ADDED_RSS"
    /\ store.details[got.request.key].skip

\* the status lines 554-620 give an item from its reconciliation result, the
\* filer's answer and no_exist_action
StatusFrom(cls, filer_ok, no_exist_action) ==
    IF ~cls.ok THEN "FAILED"
    ELSE IF cls.info = <<>> THEN "ALL_EXIST"
    ELSE IF no_exist_action = "ADD_SUBSCRIBE"
    THEN IF filer_ok THEN "ADDED_RSS" ELSE "NO_EXIST"
    ELSE IF no_exist_action = "SET_ALL_EXIST" THEN "ALL_EXIST"
    ELSE "NO_EXIST"

\* the scan upserts the record of the TV item it stands at
TurnUpserts == step = "item" /\ step' = "upserted"

\* the scan upserts a record that reads ALL_EXIST, is not skip-flagged, and
\* whose item still has gaps
TurnOnAllExistWithGaps ==
    /\ TurnUpserts
    /\ UpsertKey \in DOMAIN history
    /\ history[UpsertKey].exist_status = "ALL_EXIST"
    /\ got'.cls.ok
    /\ got'.cls.info # <<>>

\* C36 as stated: the status a scan's upsert writes is a function of the
\* reconciliation result, the filer's answer and no_exist_action, whatever the
\* record held before, and a record that read ALL_EXIST is written back as
\* NO_EXIST when gaps remain and it is not skip-flagged
C36_AllExistBackToMissing ==
    [][/\ TurnUpserts
          => store'.details[UpsertKey].exist_status
                 = StatusFrom(got'.cls, got'.res.filer.ok,
                              config.no_exist_action)
       /\ TurnOnAllExistWithGaps
          => store'.details[UpsertKey].exist_status = "NO_EXIST"]_vars

\* C36 with the second part under the configured action: the status a scan's
\* upsert writes is a function of the reconciliation result, the filer's
\* answer and no_exist_action, whatever the record held before; a record that
\* read ALL_EXIST with gaps remaining is written back as NO_EXIST under
\* ONLY_HISTORY or a refused filing, as ADDED_RSS under a granted filing and
\* as ALL_EXIST under SET_ALL_EXIST
C36_StatusFromThisScan ==
    [][/\ TurnUpserts
          => store'.details[UpsertKey].exist_status
                 = StatusFrom(got'.cls, got'.res.filer.ok,
                              config.no_exist_action)
       /\ TurnOnAllExistWithGaps
          => store'.details[UpsertKey].exist_status
                 = IF config.no_exist_action = "ONLY_HISTORY"
                   THEN "NO_EXIST"
                   ELSE IF config.no_exist_action = "SET_ALL_EXIST"
                   THEN "ALL_EXIST"
                   ELSE IF got'.res.filer.ok THEN "ADDED_RSS"
                   ELSE "NO_EXIST"]_vars

\* a record that read ALL_EXIST was written back as NO_EXIST by the scan under
\* ONLY_HISTORY, its gaps stored with it
C36_Witness ==
    /\ step = "upserted"
    /\ got.before = "ALL_EXIST"
    /\ got.cls.ok
    /\ got.cls.info # <<>>
    /\ config.no_exist_action = "ONLY_HISTORY"
    /\ store.details[UpsertKey].exist_status = "NO_EXIST"
    /\ store.details[UpsertKey].tv_no_exist_info.season_episode_no_exist_info
           = got.cls.info
    /\ ~store.details[UpsertKey].skip

\* ------------------------------------- claims on the persisted records
\* C37: whatever scans and requests have run, every persisted record whose
\* exist_status is NO_EXIST stores a non-empty season_episode_no_exist_info
C37_MissingHasGaps ==
    store.ok =>
        \A key \in DOMAIN store.details :
            store.details[key].exist_status = "NO_EXIST"
                => store.details[key].tv_no_exist_info
                       .season_episode_no_exist_info # <<>>

\* a record the scan wrote as NO_EXIST, its gaps stored, skip-flagged by a
\* request since, next to a record a request has changed to another status
C37_Witness ==
    /\ store.ok
    /\ nops > 0
    /\ \E key \in DOMAIN store.details :
          /\ store.details[key].exist_status = "NO_EXIST"
          /\ store.details[key].last_update = 1
          /\ store.details[key].skip
          /\ store.details[key].tv_no_exist_info
                 .season_episode_no_exist_info # <<>>
    /\ \E key \in DOMAIN store.details :
          /\ store.details[key].exist_status \in {"ALL_EXIST", "ADDED_RSS"}
          /\ store.details[key].tv_no_exist_info
                 .season_episode_no_exist_info # <<>>

\* C38: whatever scans and requests have run, every persisted record's
\* exist_status is ALL_EXIST, ADDED_RSS, NO_EXIST or FAILED, never UNKNOW, so
\* the four status lists of the page are pairwise disjoint and their sizes
\* add up to the size of the list of all records
C38_StatusPartition ==
    store.ok =>
        LET lists == HistoryLists(store.details)
            four == {"ALL_EXIST", "ADDED_RSS", "NO_EXIST", "FAILED"}
        IN /\ \A key \in DOMAIN store.details :
                 store.details[key].exist_status \in four
           /\ \A a, b \in four : a # b => lists[a] \cap lists[b] = {}
           /\ Cardinality(lists["ALL_EXIST"]) + Cardinality(lists["ADDED_RSS"])
                  + Cardinality(lists["NO_EXIST"])
                  + Cardinality(lists["FAILED"])
                  = Cardinality(lists["ALL"])

\* the ledger holds a record a request set to ALL_EXIST or ADDED_RSS and a
\* record the scan wrote as FAILED, in two different status lists
C38_Witness ==
    /\ store.ok
    /\ nops > 0
    /\ \E key \in DOMAIN store.details :
          /\ store.details[key].exist_status \in {"ALL_EXIST", "ADDED_RSS"}
          /\ store.details[key].tv_no_exist_info
                 .season_episode_no_exist_info # <<>>
          /\ store.details[key].last_update = 0
    /\ \E key \in DOMAIN store.details :
          /\ store.details[key].exist_status = "FAILED"
          /\ store.details[key].last_update = 1
    /\ Cardinality(HistoryLists(store.details)["ALL"]) = 2

\* ------------ specification: whole scans over the servers and libraries
\* the scans a run starts
MaxWalks == 2

\* the names __get_mediaservers answers, and the names of their libraries
MediaServers == {"ms1", "ms2"}
LibraryNames == {"lib1", "lib2"}

\* what the media servers list for an item: the server and library it lies
\* in, whether it has an item_id, and its type
LibraryItems ==
    [mediaserver : MediaServers, library : LibraryNames, item_id : BOOLEAN,
     item_type : ItemTypes]

WhitelistedEmptyAdmitsAll(item, whitelist_media_servers, whitelist_librarys) ==
    /\ whitelist_media_servers = {}
          \/ item.mediaserver \in whitelist_media_servers
    /\ whitelist_librarys = {} \/ item.library \in whitelist_librarys

\* the loops reach the items of a library: the server is in
\* _whitelist_media_servers or that list is empty, and the library's name is
\* in _whitelist_librarys
Whitelisted(item, whitelist_media_servers, whitelist_librarys) ==
    /\ whitelist_media_servers = {}
          \/ item.mediaserver \in whitelist_media_servers
    /\ item.library \in whitelist_librarys

\* the item gets past every "continue" of the loops: whitelisted, with an
\* item_id, not skip-flagged in the history the scan read, and a TV item
Reconciled(key, item, details, whitelist_media_servers, whitelist_librarys) ==
    /\ Whitelisted(item, whitelist_media_servers, whitelist_librarys)
    /\ item.item_id
    /\ ~(key \in DOMAIN details /\ details[key].skip)
    /\ item.item_type = "TV"

StartHistoryKeepsFlag(flag, blob) ==
    [store |-> IF flag THEN NoBlob ELSE blob,
     clearflag |-> flag,
     history |-> IF flag THEN <<>>
                 ELSE IF blob.ok THEN blob.details ELSE <<>>]

\* the first lines of the scan: with _clearflag set, save_data("history", "")
\* and the flag reset; else the history read from the store
StartHistory(flag, blob) ==
    [store |-> IF flag THEN NoBlob ELSE blob,
     clearflag |-> FALSE,
     history |-> IF flag THEN <<>>
                 ELSE IF blob.ok THEN blob.details ELSE <<>>]

\* the ledger persisted before the run: none, one record per item, or the
\* same with the first item skip-flagged
WalkPersisted ==
    {NoBlob,
     [ok |-> TRUE, details |-> [k \in Keys |-> EarlierDetail]],
     [ok |-> TRUE,
      details |-> [k \in Keys |->
                      IF k = ItemOrder[1]
                      THEN [EarlierDetail EXCEPT !.skip = TRUE]
                      ELSE EarlierDetail]]}

\* init_plugin has read the whitelists and the clear switch; no scan has run.
\* got keeps, for the scan under way, the keys it upserted, whether it called
\* the catalog or the subscription service, the records its clear dropped,
\* and the number of scans that cleared
WalkInit ==
    /\ given \in [whitelist_media_servers : SUBSET MediaServers,
                  whitelist_librarys : SUBSET LibraryNames,
                  items : [Keys -> LibraryItems]]
    /\ got = [upserted |-> {}, called |-> FALSE, dropped |-> {}, clears |-> 0]
    /\ step = "ledger"
    /\ store \in WalkPersisted
    /\ history = <<>>
    /\ scan = [pc |-> "idle", idx |-> 0, no |-> 0]
    /\ clearflag \in BOOLEAN
    /\ config \in LedgerConfigs
    /\ users = [u \in UserProcs |-> NoUser]
    /\ nops = 0
    /\ ninits = 0
    /\ acted = {}
    /\ history_type = "LATEST"

\* __refresh starts a scan
WalkStart ==
    /\ scan.pc = "idle"
    /\ scan.no < MaxWalks
    /\ LET start == StartHistory(clearflag, store)
       IN /\ store' = start.store
          /\ clearflag' = start.clearflag
          /\ history' = start.history
    /\ got' = [upserted |-> {}, called |-> FALSE,
               dropped |-> IF clearflag /\ store.ok
                           THEN DOMAIN store.details ELSE {},
               clears |-> IF clearflag THEN got.clears + 1 ELSE got.clears]
    /\ scan' = [pc |-> "run", idx |-> 1, no |-> scan.no + 1]
    /\ UNCHANGED <<given, step, config, users, nops, ninits, acted,
                   history_type>>

\* the loops pass over the item at one of their "continue"s
WalkPass ==
    /\ scan.pc = "run"
    /\ ~Reconciled(ItemOrder[scan.idx], given.items[ItemOrder[scan.idx]],
                   history, given.whitelist_media_servers,
                   given.whitelist_librarys)
    /\ scan' = ScanAdvanced
    /\ UNCHANGED <<given, got, step, store, history, clearflag, config, users,
                   nops, ninits, acted, history_type>>

\* the loops reconcile the item and upsert its record
WalkItem ==
    /\ scan.pc = "run"
    /\ LET key == ItemOrder[scan.idx]
       IN /\ Reconciled(key, given.items[key], history,
                        given.whitelist_media_servers,
                        given.whitelist_librarys)
          /\ \E g \in ScanGiven, add_ok \in [{1} -> BOOLEAN] :
                LET cls == GetItemNoExistInfo(g.item, g.tmdbinfo, g.subs,
                               config.only_season_exist, config.only_aired,
                               g.today)
                    res == ScanItemOutcome(g.item, cls, config.no_exist_action,
                               g.subs, add_ok, config.only_season_exist)
                IN /\ history' = AppendHistory(history, key, res.exist_status,
                                     TvNoExistInfo(g.item, cls.info), scan.no)
                   /\ got' = [got EXCEPT
                                 !.upserted = @ \cup {key},
                                 !.called = @ \/ g.item.tmdbid \/ res.filed]
          /\ store' = [ok |-> TRUE, details |-> history']
    /\ scan' = ScanAdvanced
    /\ UNCHANGED <<given, step, clearflag, config, users, nops, ninits, acted,
                   history_type>>

WalkNext == WalkStart \/ WalkPass \/ WalkItem

SpecWalk == WalkInit /\ [][WalkNext]_vars

\* a scan under way goes on to its next item by itself: the loops of
\* __get_mediaserver_tv_info wait for nothing but their collaborators' answers
SpecWalkFair == SpecWalk /\ WF_vars(WalkPass \/ WalkItem)

\* --------------------------------------------- claims on the whole scan
\* the item of this key gets past every "continue" of the scan under way
Eligible(key) ==
    Reconciled(key, given.items[key], history, given.whitelist_media_servers,
               given.whitelist_librarys)

NoRecord == [exist_status |-> "none"]

RecordOf(blob, key) ==
    IF blob.ok /\ key \in DOMAIN blob.details THEN blob.details[key]
    ELSE NoRecord

\* this step of a scan creates, changes or drops records only of items of
\* whitelisted libraries of whitelisted servers, and with an empty
\* _whitelist_librarys leaves the ledger as it is and calls neither the
\* catalog nor the subscription service
WhitelistFrame ==
    /\ \A key \in Keys :
          RecordOf(store', key) # RecordOf(store, key)
              => Whitelisted(given.items[key], given.whitelist_media_servers,
                             given.whitelist_librarys)
    /\ given.whitelist_librarys = {}
          => (store' = store /\ ~got'.called)

\* C39 as stated: every step of a scan keeps the whitelist frame
C39_WhitelistFrameAlways == [][WhitelistFrame]_vars

\* C39 apart from the clear: every step of a scan but the start of one
\* started with _clearflag set keeps the whitelist frame (an empty server
\* whitelist admits every server, the library's name must be in the library
\* whitelist, an empty library whitelist admits nothing)
C39_WhitelistFrame ==
    [][~(scan.pc = "idle" /\ clearflag) => WhitelistFrame]_vars

\* a scan under a server whitelist and a library whitelist has ended: it
\* wrote the record of the whitelisted item and left as it was the record of
\* a TV item with an item_id that is not whitelisted
C39_Witness ==
    /\ scan.pc = "idle"
    /\ scan.no = 1
    /\ given.whitelist_media_servers # {}
    /\ got.clears = 0
    /\ \E key \in Keys :
          /\ Eligible(key)
          /\ key \in got.upserted
          /\ store.details[key].last_update = 1
    /\ \E key \in Keys :
          /\ ~Whitelisted(given.items[key], given.whitelist_media_servers,
                          given.whitelist_librarys)
          /\ given.items[key].item_id
          /\ given.items[key].item_type = "TV"
          /\ key \notin got.upserted
          /\ RecordOf(store, key) = EarlierDetail

\* C40: a scan started with _clearflag set begins by replacing the persisted
\* ledger by an empty one and resetting the flag, and ends with exactly the
\* records it upserted, none of them skip-flagged; no step of a scan sets the
\* flag, and a scan started with the flag unset leaves the persisted ledger
\* as it is at its start
C40_ClearOnce ==
    [][/\ (scan.pc = "idle" /\ scan'.pc = "run" /\ clearflag)
          => (store' = NoBlob /\ history' = <<>> /\ ~clearflag')
       /\ (scan.pc = "idle" /\ scan'.pc = "run" /\ ~clearflag)
          => (store' = store /\ ~clearflag')
       /\ ~clearflag => ~clearflag'
       /\ (scan.pc = "run" /\ scan'.pc = "idle" /\ got'.clears = scan'.no)
          => (/\ \A key \in Keys :
                    RecordOf(store', key) # NoRecord <=> key \in got'.upserted
              /\ \A key \in got'.upserted : ~store'.details[key].skip)]_vars

\* the first scan cleared a ledger of two records, one of them skip-flagged,
\* and wrote the skip-flagged item's record anew; the second scan has started
\* without clearing: the ledger holds that one record, as the first scan left
\* it
C40_Witness ==
    /\ scan.no = 2
    /\ scan.pc = "run"
    /\ scan.idx = 1
    /\ got.clears = 1
    /\ ~clearflag
    /\ store.ok
    /\ DOMAIN store.details = {ItemOrder[1]}
    /\ store.details[ItemOrder[1]].last_update = 1
    /\ ~store.details[ItemOrder[1]].skip
    /\ history = store.details
    /\ ~Whitelisted(given.items[ItemOrder[2]], given.whitelist_media_servers,
                    given.whitelist_librarys)

====
